---- MODULE Spec2Model ----
(***************************************************************************)
(* Model of the quantitative engine of the trading research application.   *)
(*                                                                         *)
(* Part 1: BacktestService (backend/app/services/backtest.py).             *)
(*                                                                         *)
(* Floating point money values (cash, shares, equity, pnl, returns) are    *)
(* modelled as exact rationals [n, d] in lowest terms; [n |-> 0, d |-> 0]  *)
(* is NaN, and every comparison with NaN is false, as in IEEE arithmetic.  *)
(* The exponentially weighted means of the MACD strategy are computed in   *)
(* fixed point (FixScale units), with the recursion pandas uses.           *)
(* Bars are numbered from 0 as in the code; bar i is element i+1 of a      *)
(* sequence.  A date is modelled by the number of its bar.                 *)
(***************************************************************************)
EXTENDS Integers, Sequences, FiniteSets, TLC

\* ------------------------------------------------------------ bounds ----
\* number of bars a long series has beyond the momentum look-back of 252
TailBars == 17
\* number of different lengths each input shape is run with
LenSpread == 1

\* ------------------------------------------------- program constants ----
SmaShortWindow == 20
SmaLongWindow == 50
SmaWarmup == 50
MacdFastSpan == 12
MacdSlowSpan == 26
MacdSignalSpan == 9
MacdWarmup == 35
RsiWindow == 14
RsiWarmup == 20
RsiOversold == 30
RsiOverbought == 70
MomentumLookback == 252
BollingerWindow == 20
BollingerK == 2
MeanReversionWarmup == 25
CurvePoints == 100
DefaultCapital == 10000

\* fixed point resolution of the exponentially weighted means
FixScale == 1000

\* ------------------------------------------------ rational arithmetic ----
Abs(x) == IF x < 0 THEN -x ELSE x

Max(a, b) == IF a > b THEN a ELSE b

Min(a, b) == IF a < b THEN a ELSE b

RECURSIVE GCD(_, _)
GCD(a, b) == IF b = 0 THEN a ELSE GCD(b, a % b)

NaN == [n |-> 0, d |-> 0]

IsNaN(x) == x.d = 0

\* n/d in lowest terms, d > 0
Rat(n, d) == LET g == GCD(Abs(n), d) IN [n |-> n \div g, d |-> d \div g]

R(k) == [n |-> k, d |-> 1]

Zero == R(0)

RAdd(a, b) ==
    IF IsNaN(a) \/ IsNaN(b) THEN NaN
    ELSE LET g == GCD(a.d, b.d)
         IN  Rat(a.n * (b.d \div g) + b.n * (a.d \div g), (a.d \div g) * b.d)

RNeg(a) == [n |-> -a.n, d |-> a.d]

RSub(a, b) == RAdd(a, RNeg(b))

RMul(a, b) ==
    IF IsNaN(a) \/ IsNaN(b) THEN NaN
    ELSE LET g1 == GCD(Abs(a.n), b.d)
             g2 == GCD(Abs(b.n), a.d)
         IN  IF a.n = 0 \/ b.n = 0 THEN Zero
             ELSE [n |-> (a.n \div g1) * (b.n \div g2),
                   d |-> (a.d \div g2) * (b.d \div g1)]

\* a / b; a nonzero value divided by zero and 0/0 are not finite numbers
RDiv(a, b) ==
    IF IsNaN(a) \/ IsNaN(b) \/ b.n = 0 THEN NaN
    ELSE IF b.n > 0 THEN RMul(a, [n |-> b.d, d |-> b.n])
    ELSE RMul(a, [n |-> -b.d, d |-> -b.n])

\* a.n / a.d compared with b.n / b.d on the cross products, the common
\* factor of the denominators removed first
Cross(a, b) == a.n * (b.d \div GCD(a.d, b.d))

RLt(a, b) == ~IsNaN(a) /\ ~IsNaN(b) /\ Cross(a, b) < Cross(b, a)

RLe(a, b) == ~IsNaN(a) /\ ~IsNaN(b) /\ Cross(a, b) <= Cross(b, a)

RGt(a, b) == RLt(b, a)

RGe(a, b) == RLe(b, a)

RMax(a, b) == IF RLt(a, b) THEN b ELSE a

RMin(a, b) == IF RLt(b, a) THEN b ELSE a

\* element of bar i (bars count from 0)
At(a, i) == a[i + 1]

\* ---------------------------------------------------------- indicators ----
\* the array of the values of a series (evaluated once, element by element)
Values(f) == f \o << >>

RECURSIVE SumRange(_, _, _)
\* sum of bars lo..hi of an integer series
SumRange(c, lo, hi) ==
    IF lo > hi THEN 0
    ELSE IF lo = hi THEN At(c, lo)
    ELSE LET mid == (lo + hi) \div 2
         IN  SumRange(c, lo, mid) + SumRange(c, mid + 1, hi)

\* the series of the squares
Squares(c) == [k \in 1..Len(c) |-> c[k] * c[k]]

\* pd.Series(c).rolling(w).mean(): undefined until the window is full
RollingMean(c, w) ==
    [k \in 1..Len(c) |->
        IF k < w THEN NaN ELSE Rat(SumRange(c, k - w, k - 1), w)]

\* pd.Series(c).rolling(w).std() squared (sample variance, ddof = 1)
RollingVar(c, w) ==
    [k \in 1..Len(c) |->
        IF k < w THEN NaN
        ELSE LET S == SumRange(c, k - w, k - 1)
                 Q == SumRange(Squares(c), k - w, k - 1)
             IN  Rat(w * Q - S * S, w * (w - 1))]

\* delta.where(delta > 0, 0): the first difference is undefined and counts 0
Gain(c) ==
    [k \in 1..Len(c) |-> IF k = 1 THEN 0 ELSE Max(c[k] - c[k - 1], 0)]

Loss(c) ==
    [k \in 1..Len(c) |-> IF k = 1 THEN 0 ELSE Max(c[k - 1] - c[k], 0)]

\* rsi = 100 - 100 / (1 + gain / loss) over rolling means of RsiWindow bars:
\* gain / 0 is +inf and gives 100, 0 / 0 is NaN and gives NaN
RsiSeries(c) ==
    LET g == RollingMean(Gain(c), RsiWindow)
        l == RollingMean(Loss(c), RsiWindow)
    IN  [k \in 1..Len(c) |->
            IF IsNaN(g[k]) \/ IsNaN(l[k]) THEN NaN
            ELSE IF l[k].n = 0 THEN (IF g[k].n = 0 THEN NaN ELSE R(100))
            ELSE RSub(R(100), RDiv(R(100), RAdd(R(1), RDiv(g[k], l[k]))))]

\* lookback = min(252, len(close_prices) - 1)
Lookback(n) == Min(MomentumLookback, n - 1)

\* pd.Series(c).pct_change(lookback)
PctChange(c, lookback) ==
    [k \in 1..Len(c) |->
        IF k <= lookback THEN NaN
        ELSE RSub(Rat(c[k], c[k - lookback]), R(1))]

RECURSIVE EwmWeight(_, _)
\* (1 - a)^j in units of 1/FixScale, a = 2 / (span + 1)
EwmWeight(span, j) ==
    IF j = 0 THEN FixScale
    ELSE IF j % 2 = 0
         THEN LET h == EwmWeight(span, j \div 2) IN (h * h) \div FixScale
    ELSE (EwmWeight(span, j - 1) * (span - 1)) \div (span + 1)

\* pandas ewm(span).mean() with adjust=True, in fixed point:
\*   y[t] = sum_j (1-a)^j x[t-j] / sum_j (1-a)^j, j = 0..t
\* x is a sequence of integers in units of 1/FixScale
Ewm(x, span) ==
    LET w == Values([j \in 1..Len(x) |-> EwmWeight(span, j - 1)])
    IN  Values([k \in 1..Len(x) |->
            SumRange(Values([j \in 1..k |-> w[j] * x[k + 1 - j]]), 0, k - 1)
              \div SumRange(w, 0, k - 1)])

Fixed(c) == Values([k \in 1..Len(c) |-> c[k] * FixScale])

\* macd = ewm12 - ewm26, in fixed point
MacdFixed(c) ==
    LET exp12 == Ewm(Fixed(c), MacdFastSpan)
        exp26 == Ewm(Fixed(c), MacdSlowSpan)
    IN  Values([k \in 1..Len(c) |-> exp12[k] - exp26[k]])

MacdSeries(c) ==
    LET m == MacdFixed(c) IN [k \in 1..Len(c) |-> Rat(m[k], FixScale)]

\* signal = macd.ewm(span=9).mean()
SignalSeries(c) ==
    LET s == Ewm(MacdFixed(c), MacdSignalSpan)
    IN  [k \in 1..Len(c) |-> Rat(s[k], FixScale)]

\* close <= lower_band, lower_band = sma - 2 * std, decided on the squares
AtOrBelowLowerBand(p, sma, var) ==
    /\ ~IsNaN(sma) /\ ~IsNaN(var)
    /\ RLe(R(p), sma)
    /\ RGe(RMul(RSub(sma, R(p)), RSub(sma, R(p))),
           RMul(R(BollingerK * BollingerK), var))

\* the indicator arrays a strategy computes before its loop
Indicators(strat, c) ==
    CASE strat = "sma_crossover" ->
           [sma_short |-> RollingMean(c, SmaShortWindow),
            sma_long |-> RollingMean(c, SmaLongWindow)]
      [] strat = "macd" ->
           [macd |-> MacdSeries(c), signal |-> SignalSeries(c)]
      [] strat = "rsi_reversal" -> [rsi |-> RsiSeries(c)]
      [] strat = "momentum" ->
           [lookback |-> Lookback(Len(c)),
            momentum |-> PctChange(c, Lookback(Len(c)))]
      [] strat = "mean_reversion" ->
           [sma |-> RollingMean(c, BollingerWindow),
            var |-> RollingVar(c, BollingerWindow)]
      [] OTHER -> [none |-> TRUE]

\* ------------------------------------------------------------- inputs ----
Strategies ==
    {"buy_and_hold", "sma_crossover", "macd", "rsi_reversal", "momentum",
     "mean_reversion", "grid", "SMA_CROSSOVER"}

\* run_backtest without its final else: an unknown id is not dispatched
DispatchKnownOnly(strat) == strat

\* run_backtest: the strategy function a strategy id is dispatched to
Dispatch(strat) ==
    IF strat \in {"sma_crossover", "macd", "rsi_reversal", "momentum",
                  "mean_reversion"}
    THEN strat ELSE "buy_and_hold"

\* A price series is a wave: it rises from base in ramp steps of step, stays
\* flat bars at the top, falls back in ramp steps and stays flat bars at the
\* bottom; ph is the bar of the cycle the series starts at.
Price(sh, k) ==
    LET cyc == 2 * sh.ramp + 2 * sh.flat
        c == (k + sh.ph) % cyc
        top == sh.base + sh.step * sh.ramp
    IN  IF c <= sh.ramp THEN sh.base + sh.step * c
        ELSE IF c <= sh.ramp + sh.flat THEN top
        ELSE IF c <= 2 * sh.ramp + sh.flat
             THEN top - sh.step * (c - sh.ramp - sh.flat)
        ELSE sh.base

Series(sh, n) == [k \in 1..n |-> Price(sh, k - 1)]

Shape(b, r, s, f, p) == [base |-> b, ramp |-> r, step |-> s, flat |-> f, ph |-> p]

\* the second series of a pair: the first cut bars of c, then bars of shape sh
Variant(c, cut, sh, n) ==
    [k \in 1..n |-> IF k <= cut /\ k <= Len(c) THEN c[k] ELSE Price(sh, k - 1)]

RECURSIVE FirstDiff(_, _, _, _)
\* the first index in lo..hi at which a and b differ, hi + 1 if there is none
FirstDiff(a, b, lo, hi) ==
    IF lo > hi THEN hi + 1
    ELSE IF lo = hi THEN (IF a[lo] = b[lo] THEN hi + 1 ELSE lo)
    ELSE LET mid == (lo + hi) \div 2
             l == FirstDiff(a, b, lo, mid)
         IN  IF l <= mid THEN l ELSE FirstDiff(a, b, mid + 1, hi)

\* number of leading bars on which two series agree
Agree(a, b) == FirstDiff(a, b, 1, Min(Len(a), Len(b))) - 1

\* ------------------------------------------------------------- state ----
VARIABLES
    strategy,         \* the strategy id passed to run_backtest
    close,            \* prices["Close"].values
    initial_capital,
    pc,               \* "start", "loop", "metrics", "done"
    ind,              \* the indicator arrays computed before the loop
    i,                \* the bar the loop is at
    position, cash, shares, equity_curve, trades,
    result,           \* the BacktestResult
    closeB,           \* a second series, run in step with the first
    shadow            \* the loop state of the run over closeB

btVars ==
    << strategy, close, initial_capital, pc, ind, i, position, cash, shares,
       equity_curve, trades, result, closeB, shadow >>

\* the technical analysis of one ticker (Part 2)
VARIABLES
    hist,             \* hist_data.close, the closes the provider has
    today,            \* the number of bars the provider returns to this call
    tpc,              \* the generator the call is at, "aggregate", "done"
    signals,          \* the signals appended so far
    consensus,        \* the Signal of aggregate_signals
    analysis,         \* analysis[ticker]
    earlier           \* the bars and the outcome of the call before this one

taVars == << hist, today, tpc, signals, consensus, analysis, earlier >>

\* the ranking of a universe (Part 3): the keys of the ResearchState
VARIABLES
    universe, risk_preference, budget,
    fundamental_analysis, technical_analysis, sentiment_analysis,
    risk_assessment, ranked_picks, allocations,
    rpc               \* the node of the graph that runs next, "done" at END

rkVars ==
    << universe, risk_preference, budget, fundamental_analysis,
       technical_analysis, sentiment_analysis, risk_assessment, ranked_picks,
       allocations, rpc >>

\* the rest of the research run (Part 4): the other keys of the ResearchState
VARIABLES
    asset_classes, specific_tickers, price_data, full_report,
    trace,            \* the nodes of the graph that have run, in order
    provider          \* what the market data provider answers in this run

plVars ==
    << asset_classes, specific_tickers, price_data, full_report, trace,
       provider >>

\* a batch of price fetches (Part 5)
VARIABLES
    batch,            \* the tickers passed to get_multiple_prices
    fetch,            \* the state of the get_current_price task of each
    prices_out,       \* the dict get_multiple_prices returns
    fpc               \* "idle", "gather", "done"

ftVars == << batch, fetch, prices_out, fpc >>

\* the report rows and their background tasks (Part 6)
VARIABLES
    reports,          \* the rows of the table reports, by id
    tasks             \* run_research_task of each report

rpVars == << reports, tasks >>

vars == << btVars, taVars, rkVars, plVars, ftVars, rpVars >>

\* no backtest is running
BtIdle ==
    /\ strategy = "buy_and_hold" /\ close = << >> /\ initial_capital = 0
    /\ pc = "idle" /\ ind = [none |-> TRUE] /\ i = 0 /\ position = 0
    /\ cash = [n |-> 0, d |-> 1] /\ shares = [n |-> 0, d |-> 1]
    /\ equity_curve = << >> /\ trades = << >> /\ result = [none |-> TRUE]
    /\ closeB = << >> /\ shadow = [none |-> TRUE]

\* no technical analysis is running
TaIdle ==
    /\ hist = << >> /\ today = 0 /\ tpc = "idle" /\ signals = << >>
    /\ consensus = [none |-> TRUE] /\ analysis = [none |-> TRUE]
    /\ earlier = [none |-> TRUE]

\* no ranking is running
RkIdle ==
    /\ universe = << >> /\ risk_preference = "moderate" /\ budget = 0
    /\ fundamental_analysis = << >> /\ technical_analysis = << >>
    /\ sentiment_analysis = << >> /\ risk_assessment = << >>
    /\ ranked_picks = << >> /\ allocations = << >> /\ rpc = "idle"

\* no research run beyond the ranking
PlIdle ==
    /\ asset_classes = {} /\ specific_tickers = << >> /\ price_data = << >>
    /\ full_report = << >> /\ trace = << >> /\ provider = [none |-> TRUE]

\* no batch of price fetches
FtIdle ==
    /\ batch = << >> /\ fetch = << >> /\ prices_out = << >> /\ fpc = "idle"

\* no report
RpIdle == reports = << >> /\ tasks = << >>

\* the loop state of the run over close, as one record
Run ==
    [ind |-> ind, position |-> position, cash |-> cash, shares |-> shares,
     equity_curve |-> equity_curve, trades |-> trades]

NoInd == [none |-> TRUE]

NoResult == [none |-> TRUE]

\* position = 0, cash = initial_capital, shares = 0, no equity, no trades
FreshRun(K) ==
    [ind |-> NoInd, position |-> 0, cash |-> R(K), shares |-> Zero,
     equity_curve |-> << >>, trades |-> << >>]

\* --------------------------------------------------- the strategy loops ----
\* Buy without "cash = 0": the cash stays on the account
BuyKeepingCash(r, p, k) ==
    [r EXCEPT !.shares = RDiv(r.cash, R(p)),
              !.position = 1,
              !.trades = Append(@, [type |-> "buy", date |-> k, price |-> p,
                                    shares |-> RDiv(r.cash, R(p))])]

\* the buy branch: all cash buys shares at the close of bar k
Buy(r, p, k) ==
    [r EXCEPT !.shares = RDiv(r.cash, R(p)),
              !.cash = Zero,
              !.position = 1,
              !.trades = Append(@, [type |-> "buy", date |-> k, price |-> p,
                                    shares |-> RDiv(r.cash, R(p))])]

\* the sell branch: all shares are sold at the close of bar k
Sell(r, p, k, K) ==
    LET proceeds == RMul(r.shares, R(p))
        pnl == IF Len(r.trades) > 0 THEN RSub(proceeds, R(K)) ELSE Zero
    IN  [r EXCEPT !.cash = proceeds,
                  !.shares = Zero,
                  !.position = 0,
                  !.trades = Append(@, [type |-> "sell", date |-> k,
                                        price |-> p, pnl |-> pnl])]

\* equity = cash + shares * close[k], taken before the bar's trade
Equity(r, p) == RAdd(r.cash, RMul(r.shares, R(p)))

\* Bar without the tests of the position
BarIgnoringPosition(r, c, k, K, warmup, buy, sell) ==
    LET p == At(c, k)
        r1 == [r EXCEPT !.equity_curve = Append(@, Equity(r, p))]
    IN  IF k < warmup THEN r1
        ELSE IF buy THEN Buy(r1, p, k)
        ELSE IF sell THEN Sell(r1, p, k, K)
        ELSE r1

\* Bar with the warm-up test before the equity is recorded
BarWarmupUnrecorded(r, c, k, K, warmup, buy, sell) ==
    LET p == At(c, k)
        r1 == [r EXCEPT !.equity_curve = Append(@, Equity(r, p))]
    IN  IF k < warmup THEN r
        ELSE IF buy /\ r.position = 0 THEN Buy(r1, p, k)
        ELSE IF sell /\ r.position = 1 THEN Sell(r1, p, k, K)
        ELSE r1

\* one iteration of a strategy loop at bar k
Bar(r, c, k, K, warmup, buy, sell) ==
    LET p == At(c, k)
        r1 == [r EXCEPT !.equity_curve = Append(@, Equity(r, p))]
    IN  IF k < warmup THEN r1
        ELSE IF buy /\ r.position = 0 THEN Buy(r1, p, k)
        ELSE IF sell /\ r.position = 1 THEN Sell(r1, p, k, K)
        ELSE r1

SmaCrossoverBar(r, c, k, K) ==
    Bar(r, c, k, K, SmaWarmup,
        /\ RGt(At(r.ind.sma_short, k), At(r.ind.sma_long, k))
        /\ RLe(At(r.ind.sma_short, k - 1), At(r.ind.sma_long, k - 1)),
        /\ RLt(At(r.ind.sma_short, k), At(r.ind.sma_long, k))
        /\ RGe(At(r.ind.sma_short, k - 1), At(r.ind.sma_long, k - 1)))

MacdBar(r, c, k, K) ==
    Bar(r, c, k, K, MacdWarmup,
        /\ RGt(At(r.ind.macd, k), At(r.ind.signal, k))
        /\ RLe(At(r.ind.macd, k - 1), At(r.ind.signal, k - 1)),
        /\ RLt(At(r.ind.macd, k), At(r.ind.signal, k))
        /\ RGe(At(r.ind.macd, k - 1), At(r.ind.signal, k - 1)))

RsiBar(r, c, k, K) ==
    Bar(r, c, k, K, RsiWarmup,
        /\ RGt(At(r.ind.rsi, k), R(RsiOversold))
        /\ RLe(At(r.ind.rsi, k - 1), R(RsiOversold)),
        RGt(At(r.ind.rsi, k), R(RsiOverbought)))

\* the warm-up of the momentum loop one bar short
MomentumWarmupShort(r) == r.ind.lookback

MomentumWarmup(r) == r.ind.lookback + 1

MomentumBar(r, c, k, K) ==
    Bar(r, c, k, K, MomentumWarmup(r),
        RGt(At(r.ind.momentum, k), Zero),
        RLt(At(r.ind.momentum, k), Zero))

MeanReversionBar(r, c, k, K) ==
    Bar(r, c, k, K, MeanReversionWarmup,
        AtOrBelowLowerBand(At(c, k), At(r.ind.sma, k), At(r.ind.var, k)),
        RGe(R(At(c, k)), At(r.ind.sma, k)))

StrategyBar(strat, r, c, k, K) ==
    CASE strat = "sma_crossover" -> SmaCrossoverBar(r, c, k, K)
      [] strat = "macd" -> MacdBar(r, c, k, K)
      [] strat = "rsi_reversal" -> RsiBar(r, c, k, K)
      [] strat = "momentum" -> MomentumBar(r, c, k, K)
      [] strat = "mean_reversion" -> MeanReversionBar(r, c, k, K)

\* _buy_and_hold buying at the close of the second bar
BuyAndHoldNextBar(c, K) ==
    LET sh == RDiv(R(K), R(c[Min(2, Len(c))]))
    IN  [ind |-> NoInd, position |-> 1, cash |-> Zero, shares |-> sh,
         equity_curve |-> [k \in 1..Len(c) |-> RMul(sh, R(c[k]))],
         trades |-> << [type |-> "buy", date |-> 0, price |-> c[1],
                        shares |-> sh] >>]

\* _buy_and_hold: shares = initial_capital / close[0], equity = shares * close
BuyAndHoldRun(c, K) ==
    LET sh == RDiv(R(K), R(c[1]))
    IN  [ind |-> NoInd, position |-> 1, cash |-> Zero, shares |-> sh,
         equity_curve |-> [k \in 1..Len(c) |-> RMul(sh, R(c[k]))],
         trades |-> << [type |-> "buy", date |-> 0, price |-> c[1],
                        shares |-> sh] >>]

\* ------------------------------------------------------------ metrics ----
\* t.get("pnl", 0)
Pnl(t) == IF "pnl" \in DOMAIN t THEN t.pnl ELSE Zero

RECURSIVE RangeMax(_, _, _)
\* the largest of elements lo..hi of a sequence of numbers
RangeMax(eq, lo, hi) ==
    IF lo = hi THEN eq[lo]
    ELSE LET mid == (lo + hi) \div 2
         IN  RMax(RangeMax(eq, lo, mid), RangeMax(eq, mid + 1, hi))

RECURSIVE RangeMin(_, _, _)
\* np.min over elements lo..hi: NaN if any element is NaN
RangeMin(dd, lo, hi) ==
    IF lo = hi THEN dd[lo]
    ELSE LET mid == (lo + hi) \div 2
             a == RangeMin(dd, lo, mid)
             b == RangeMin(dd, mid + 1, hi)
         IN  IF IsNaN(a) \/ IsNaN(b) THEN NaN ELSE RMin(a, b)

\* the peak taken as the first value of the curve
PeakFromStart(eq) == [k \in 1..Len(eq) |-> eq[1]]

\* peak = np.maximum.accumulate(equity_curve)
Peak(eq) == [k \in 1..Len(eq) |-> RangeMax(eq, 1, k)]

\* drawdown = (equity_curve - peak) / peak
Drawdown(eq) ==
    LET peak == Peak(eq)
    IN  [k \in 1..Len(eq) |-> RDiv(RSub(eq[k], peak[k]), peak[k])]

\* max_drawdown = np.min(drawdown)
MaxDrawdown(eq) == RangeMin(Drawdown(eq), 1, Len(eq))

\* winning_trades / len(trades) if trades else 0
WinRate(tr) ==
    LET winning == Cardinality({k \in 1..Len(tr) : RGt(Pnl(tr[k]), Zero)})
    IN  IF Len(tr) > 0 THEN Rat(winning, Len(tr)) ELSE Zero

\* range(0, len(equity_curve), max(1, len(equity_curve) // 100))
SampleStep(n) == Max(1, n \div CurvePoints)

EquityData(eq) ==
    LET step == SampleStep(Len(eq))
        cnt == (Len(eq) + step - 1) \div step
    IN  [j \in 1..cnt |-> [date |-> (j - 1) * step, value |-> At(eq, (j - 1) * step)]]

\* total_return = (equity_curve[-1] - initial_capital) / initial_capital
TotalReturn(eq, K) == RDiv(RSub(eq[Len(eq)], R(K)), R(K))

\* _calculate_metrics: the BacktestResult (the ratios that need square roots
\* and fractional powers are left out)
Metrics(eq, tr, K) ==
    [initial_capital |-> K,
     final_value |-> eq[Len(eq)],
     total_return |-> TotalReturn(eq, K),
     max_drawdown |-> MaxDrawdown(eq),
     win_rate |-> WinRate(tr),
     total_trades |-> Len(tr),
     start_date |-> 0,
     end_date |-> Len(eq) - 1,
     equity_curve |-> EquityData(eq)]

\* ------------------------------------------------------ initial states ----
ShortBars == 120

LongBars == MomentumLookback + 1 + TailBars

SquareWave == Shape(10, 1, 10, 12, 0)

Saw == Shape(10, 10, 1, 5, 0)

WideSquare == Shape(10, 1, 10, 20, 3)

Triangle == Shape(10, 30, 1, 0, 30)

Trapezoid == Shape(10, 20, 1, 20, 0)

FastSquare == Shape(10, 1, 10, 3, 0)

Rising == Shape(100, 100, 1, 0, 0)

TailShape == Shape(12, 1, 12, 9, 2)

ShapesFor(strat) ==
    CASE strat = "sma_crossover" -> {SquareWave, Triangle}
      [] strat = "macd" -> {SquareWave, WideSquare}
      [] strat = "rsi_reversal" -> {SquareWave, Triangle}
      [] strat = "mean_reversion" -> {Saw, SquareWave}
      [] strat = "momentum" -> {FastSquare}
      [] OTHER -> {Rising, Triangle, Trapezoid}

BarsFor(strat, sh) ==
    IF strat = "momentum"
    THEN {LongBars - 28, MomentumLookback + 1}
           \cup (LongBars .. LongBars + LenSpread)
    ELSE IF sh = Rising THEN {101}
    ELSE ShortBars .. ShortBars + LenSpread

Init ==
    /\ strategy \in Strategies
    /\ initial_capital = DefaultCapital
    /\ \E sh \in ShapesFor(strategy) : \E n \in BarsFor(strategy, sh) :
         /\ close = Series(sh, n)
         /\ closeB \in {Variant(close, n - 20, TailShape, n + 2),
                        Variant(close, n - 28, TailShape, n - 28)}
    /\ pc = "start"
    /\ ind = NoInd
    /\ i = 0
    /\ position = 0
    /\ cash = R(initial_capital)
    /\ shares = Zero
    /\ equity_curve = << >>
    /\ trades = << >>
    /\ result = NoResult
    /\ shadow = FreshRun(initial_capital)
    /\ TaIdle
    /\ RkIdle
    /\ PlIdle
    /\ FtIdle
    /\ RpIdle

\* ------------------------------------------------------------ actions ----
SetRun(r) ==
    /\ ind' = r.ind
    /\ position' = r.position
    /\ cash' = r.cash
    /\ shares' = r.shares
    /\ equity_curve' = r.equity_curve
    /\ trades' = r.trades

\* run_backtest dispatched to _buy_and_hold, up to the call of the metrics
BuyAndHold ==
    /\ pc = "start"
    /\ Dispatch(strategy) = "buy_and_hold"
    /\ SetRun(BuyAndHoldRun(close, initial_capital))
    /\ shadow' = BuyAndHoldRun(closeB, initial_capital)
    /\ i' = Len(close)
    /\ pc' = "metrics"
    /\ UNCHANGED << strategy, close, initial_capital, result, closeB >>
    /\ UNCHANGED << taVars, rkVars, plVars, ftVars, rpVars >>

\* run_backtest dispatched to a strategy with a loop: the indicator arrays
Precompute ==
    /\ pc = "start"
    /\ Dispatch(strategy) # "buy_and_hold"
    /\ ind' = Indicators(strategy, close)
    /\ shadow' = [shadow EXCEPT !.ind = Indicators(strategy, closeB)]
    /\ pc' = "loop"
    /\ UNCHANGED << strategy, close, initial_capital, i, position, cash,
                    shares, equity_curve, trades, result, closeB >>
    /\ UNCHANGED << taVars, rkVars, plVars, ftVars, rpVars >>

\* one bar of the loop of strategy strat, for both series
LoopStep(strat) ==
    /\ pc = "loop"
    /\ strategy = strat
    /\ i < Len(close)
    /\ SetRun(StrategyBar(strat, Run, close, i, initial_capital))
    /\ shadow' = IF i < Len(closeB)
                 THEN StrategyBar(strat, shadow, closeB, i, initial_capital)
                 ELSE shadow
    /\ i' = i + 1
    /\ pc' = IF i + 1 = Len(close) THEN "metrics" ELSE "loop"
    /\ UNCHANGED << strategy, close, initial_capital, result, closeB >>
    /\ UNCHANGED << taVars, rkVars, plVars, ftVars, rpVars >>

SmaCrossover == LoopStep("sma_crossover")

Macd == LoopStep("macd")

RsiStrategy == LoopStep("rsi_reversal")

MomentumStrategy == LoopStep("momentum")

MeanReversion == LoopStep("mean_reversion")

CalculateMetrics ==
    /\ pc = "metrics"
    /\ result' = Metrics(equity_curve, trades, initial_capital)
    /\ pc' = "done"
    /\ UNCHANGED << strategy, close, initial_capital, ind, i, position, cash,
                    shares, equity_curve, trades, closeB, shadow >>
    /\ UNCHANGED << taVars, rkVars, plVars, ftVars, rpVars >>

Next ==
    \/ BuyAndHold
    \/ Precompute
    \/ SmaCrossover
    \/ Macd
    \/ RsiStrategy
    \/ MomentumStrategy
    \/ MeanReversion
    \/ CalculateMetrics

Spec == Init /\ [][Next]_vars

(***************************************************************************)
(* Part 2: QuantStrategies (backend/app/strategies/quant.py) and the       *)
(* technical analysis of one ticker (backend/app/agents/router.py).        *)
(*                                                                         *)
(* A Signal is [action, strength, reason]; the indicator snapshot is left  *)
(* out.  A generator that raises is modelled by the value IndexError.      *)
(* Strengths are exact rationals, except where a square root or an         *)
(* exponential mean enters: those are computed in units of 1/FixScale.     *)
(***************************************************************************)

\* the unit of the exponential means of calculate_macd is 1/EmaScale
EmaScale == 100000

\* -------------------------------------------- constants of quant.py ----
short_period == 20
long_period == 50
fast_period == 12
slow_period == 26
signal_period == 9
rsi_period == 14
oversold == 30
overbought == 70
bb_period == 20
std_dev == 2
lookback_default == 252
lookback_short == 20

Half == Rat(1, 2)

\* the threshold of aggregate_signals and of the RSI territory holds
Threshold == Rat(3, 10)

\* the base strength of a Bollinger buy or sell
BandBase == Rat(7, 10)

\* the long-window return a momentum buy or sell needs
MomentumMin == Rat(1, 10)

Signal(a, s, r) == [action |-> a, strength |-> s, reason |-> r]

\* what prices.iloc[-2] raises on a series of one element
IndexError == [error |-> "IndexError"]

Raised(s) == "error" \in DOMAIN s

\* s.iloc[-k] for 0 <= k <= n on a series of n elements (iloc[-0] is iloc[0])
ILoc(s, n, k) == IF k = 0 THEN s[1] ELSE s[n + 1 - k]

\* min(1.0, x) without the comparison: the strength is not clamped
Unclamped(x) == x

\* min(1.0, x): x if x < 1.0, else 1.0 (also for NaN)
Clamp(x) == IF RLt(x, R(1)) THEN x ELSE R(1)

\* ------------------------------------------------------- indicators ----
calculate_sma(prices, period) == RollingMean(prices, period)

calculate_rsi(prices) == RsiSeries(prices)

RECURSIVE EmaRange(_, _, _, _, _)
\* y[lo..hi] of y[t] = a x[t] + (1 - a) y[t-1], a = 2 / (span + 1), from
\* y0 = y[lo-1]; the range is halved, the second half starts from the last
\* value of the first
EmaRange(x, span, lo, hi, y0) ==
    IF lo = hi THEN << (2 * x[lo] + (span - 1) * y0) \div (span + 1) >>
    ELSE LET mid == (lo + hi) \div 2
             left == EmaRange(x, span, lo, mid, y0)
         IN  left \o EmaRange(x, span, mid + 1, hi, left[mid - lo + 1])

\* prices.ewm(span, adjust=False).mean() in units of 1/EmaScale: y[0] = x[0]
calculate_ema(x, span) ==
    IF Len(x) = 1 THEN << x[1] >>
    ELSE << x[1] >> \o EmaRange(x, span, 2, Len(x), x[1])

\* macd, signal and histogram in units of 1/EmaScale
calculate_macd(prices) ==
    LET x == Values([k \in 1..Len(prices) |-> prices[k] * EmaScale])
        fast_ema == calculate_ema(x, fast_period)
        slow_ema == calculate_ema(x, slow_period)
        macd == Values([k \in 1..Len(prices) |-> fast_ema[k] - slow_ema[k]])
        signal == calculate_ema(macd, signal_period)
    IN  [macd |-> macd, signal |-> signal,
         histogram |-> Values([k \in 1..Len(prices) |-> macd[k] - signal[k]])]

RECURSIVE SqrtIn(_, _, _)
\* the largest r in lo..hi with r * r <= v
SqrtIn(v, lo, hi) ==
    IF lo >= hi THEN lo
    ELSE LET mid == (lo + hi + 1) \div 2
         IN  IF mid * mid <= v THEN SqrtIn(v, mid, hi)
             ELSE SqrtIn(v, lo, mid - 1)

\* floor of the square root of v >= 0
Sqrt(v) == SqrtIn(v, 0, Min(v, 46340))

\* the bands at the last bar, in fixed point:
\* sma -+ std_dev * std over the last bb_period bars (std with ddof = 1)
calculate_bollinger_bands(prices) ==
    LET n == Len(prices)
        S == SumRange(prices, n - bb_period, n - 1)
        Q == SumRange(Squares(prices), n - bb_period, n - 1)
        V == bb_period * Q - S * S
        std == Sqrt(((V * FixScale) \div (bb_period * (bb_period - 1)))
                     * FixScale)
        sma == (S * FixScale) \div bb_period
    IN  [upper |-> sma + std_dev * std, middle |-> sma,
         lower |-> sma - std_dev * std]

\* close >= upper_band, upper_band = sma + 2 * std, decided on the squares
AtOrAboveUpperBand(p, sma, var) ==
    /\ ~IsNaN(sma) /\ ~IsNaN(var)
    /\ RGe(R(p), sma)
    /\ RGe(RMul(RSub(R(p), sma), RSub(R(p), sma)),
           RMul(R(std_dev * std_dev), var))

\* ------------------------------------------------- signal generators ----
\* sma_crossover_signal with the conditions on the previous bar left out
sma_trend_signal(prices) ==
    IF Len(prices) < 2 THEN IndexError
    ELSE
    LET n == Len(prices)
        current_short == ILoc(calculate_sma(prices, short_period), n, 1)
        current_long == ILoc(calculate_sma(prices, long_period), n, 1)
    IN  IF RGt(current_short, current_long)
        THEN Signal("buy",
                    Clamp(RMul(RDiv(RSub(current_short, current_long),
                                    current_long), R(10))),
                    "crossed above")
        ELSE IF RLt(current_short, current_long)
        THEN Signal("sell",
                    Clamp(RMul(RDiv(RSub(current_long, current_short),
                                    current_long), R(10))),
                    "crossed below")
        ELSE Signal("hold", Half, "downtrend")

sma_crossover_signal(prices) ==
    IF Len(prices) < 2 THEN IndexError
    ELSE
    LET n == Len(prices)
        current_short == ILoc(calculate_sma(prices, short_period), n, 1)
        current_long == ILoc(calculate_sma(prices, long_period), n, 1)
        prev_short == ILoc(calculate_sma(prices, short_period), n, 2)
        prev_long == ILoc(calculate_sma(prices, long_period), n, 2)
    IN  IF RGt(current_short, current_long) /\ RLe(prev_short, prev_long)
        THEN Signal("buy",
                    Clamp(RMul(RDiv(RSub(current_short, current_long),
                                    current_long), R(10))),
                    "crossed above")
        ELSE IF RLt(current_short, current_long) /\ RGe(prev_short, prev_long)
        THEN Signal("sell",
                    Clamp(RMul(RDiv(RSub(current_long, current_short),
                                    current_long), R(10))),
                    "crossed below")
        ELSE IF RGt(current_short, current_long)
        THEN Signal("hold", Half, "uptrend")
        ELSE Signal("hold", Half, "downtrend")

macd_signal(prices) ==
    IF Len(prices) < 2 THEN IndexError
    ELSE
    LET n == Len(prices)
        m == calculate_macd(prices)
        current_macd == ILoc(m.macd, n, 1)
        current_signal == ILoc(m.signal, n, 1)
        prev_macd == ILoc(m.macd, n, 2)
        prev_signal == ILoc(m.signal, n, 2)
        current_hist == ILoc(m.histogram, n, 1)
        \* abs(current_hist) / prices.iloc[-1] * 100
        strength == Rat(Abs(current_hist), ILoc(prices, n, 1) * (EmaScale \div 100))
    IN  IF current_macd > current_signal /\ prev_macd <= prev_signal
        THEN Signal("buy", Clamp(strength), "crossed above")
        ELSE IF current_macd < current_signal /\ prev_macd >= prev_signal
        THEN Signal("sell", Clamp(strength), "crossed below")
        ELSE IF current_hist > 0 /\ current_hist > ILoc(m.histogram, n, 2)
        THEN Signal("hold", Rat(6, 10), "bullish momentum")
        ELSE Signal("hold", Rat(4, 10), "bearish or consolidation")

rsi_signal(prices) ==
    IF Len(prices) < 2 THEN IndexError
    ELSE
    LET n == Len(prices)
        current_rsi == ILoc(calculate_rsi(prices), n, 1)
        prev_rsi == ILoc(calculate_rsi(prices), n, 2)
    IN  IF RGt(current_rsi, R(oversold)) /\ RLe(prev_rsi, R(oversold))
        THEN Signal("buy",
                    Clamp(RAdd(RDiv(RSub(R(oversold), prev_rsi), R(oversold)),
                               Half)),
                    "recovered from oversold")
        ELSE IF RLt(current_rsi, R(overbought))
                  /\ RGe(prev_rsi, R(overbought))
        THEN Signal("sell",
                    Clamp(RAdd(RDiv(RSub(prev_rsi, R(overbought)),
                                    R(100 - overbought)), Half)),
                    "fell from overbought")
        ELSE IF RLt(current_rsi, R(oversold))
        THEN Signal("hold", Threshold, "oversold territory")
        ELSE IF RGt(current_rsi, R(overbought))
        THEN Signal("hold", Threshold, "overbought territory")
        ELSE Signal("hold", Half, "neutral")

\* the comparisons with the bands are decided exactly (on the squares), the
\* strength is computed from the bands in fixed point; band_position > 0.5
\* is current_price > middle, and false while the bands are undefined
bollinger_bands_signal(prices) ==
    LET n == Len(prices)
        current_price == ILoc(prices, n, 1)
        sma == ILoc(RollingMean(prices, bb_period), n, 1)
        var == ILoc(RollingVar(prices, bb_period), n, 1)
        b == calculate_bollinger_bands(prices)
        p == current_price * FixScale
    IN  IF AtOrBelowLowerBand(current_price, sma, var)
        THEN Signal("buy",
                    Clamp(RAdd(Rat((b.lower - p) * 10, b.lower), BandBase)),
                    "at or below lower band")
        ELSE IF AtOrAboveUpperBand(current_price, sma, var)
        THEN Signal("sell",
                    Clamp(RAdd(Rat((p - b.upper) * 10, b.upper), BandBase)),
                    "at or above upper band")
        ELSE IF RGt(R(current_price), sma)
        THEN Signal("hold", Half, "upper half")
        ELSE Signal("hold", Half, "lower half")

\* the lookback of momentum_signal on n bars: shrunk if len(prices) < 253
MomentumSpan(n) ==
    IF n < lookback_default + 1 THEN n - 1 ELSE lookback_default

\* momentum = (prices.iloc[-1] - prices.iloc[-lookback])
\*            / prices.iloc[-lookback]
momentum_long(prices) ==
    LET n == Len(prices)
        lookback == MomentumSpan(n)
    IN  Rat(ILoc(prices, n, 1) - ILoc(prices, n, lookback),
            ILoc(prices, n, lookback))

momentum_signal(prices) ==
    LET n == Len(prices)
        last == ILoc(prices, n, 1)
        momentum == momentum_long(prices)
        momentum_short ==
            IF n > lookback_short
            THEN Rat(last - ILoc(prices, n, lookback_short),
                     ILoc(prices, n, lookback_short))
            ELSE momentum
    IN  IF RGt(momentum, MomentumMin) /\ RGt(momentum_short, Zero)
        THEN Signal("buy", Clamp(momentum), "strong positive")
        ELSE IF RLt(momentum, RNeg(MomentumMin)) /\ RLt(momentum_short, Zero)
        THEN Signal("sell", Clamp([n |-> Abs(momentum.n), d |-> momentum.d]),
                    "strong negative")
        ELSE IF RGt(momentum, Zero) /\ RLt(momentum_short, Zero)
        THEN Signal("hold", Rat(4, 10), "long positive short negative")
        ELSE IF RLt(momentum, Zero) /\ RGt(momentum_short, Zero)
        THEN Signal("hold", Rat(6, 10), "long negative short positive")
        ELSE Signal("hold", Half, "neutral")

\* ------------------------------------------------ aggregate_signals ----
RECURSIVE SumStrength(_, _)
\* sum(s.strength for s in signals if s.action == action)
SumStrength(sigs, action) ==
    IF sigs = << >> THEN Zero
    ELSE LET rest == SumStrength(Tail(sigs), action)
         IN  IF Head(sigs).action = action
             THEN RAdd(Head(sigs).strength, rest)
             ELSE rest

\* sum(...) / len(signals) if there is a signal with the action, else 0
Aggregate(sigs, action) ==
    IF \E k \in 1..Len(sigs) : sigs[k].action = action
    THEN RDiv(SumStrength(sigs, action), R(Len(sigs)))
    ELSE Zero

\* aggregate_signals with >= in place of > on the threshold
aggregate_signals_at_threshold(sigs) ==
    LET buy_strength == Aggregate(sigs, "buy")
        sell_strength == Aggregate(sigs, "sell")
    IN  IF RGt(buy_strength, sell_strength) /\ RGe(buy_strength, Threshold)
        THEN Signal("buy", buy_strength, "buy reasons")
        ELSE IF RGt(sell_strength, buy_strength)
                  /\ RGe(sell_strength, Threshold)
        THEN Signal("sell", sell_strength, "sell reasons")
        ELSE Signal("hold", Half, "mixed signals")

\* aggregate_signals dividing by the number of signals of the action
aggregate_signals_by_mean(sigs) ==
    LET count(a) == Cardinality({k \in 1..Len(sigs) : sigs[k].action = a})
        buy_strength == IF count("buy") = 0 THEN Zero
                        ELSE RDiv(SumStrength(sigs, "buy"), R(count("buy")))
        sell_strength == IF count("sell") = 0 THEN Zero
                         ELSE RDiv(SumStrength(sigs, "sell"),
                                   R(count("sell")))
    IN  IF RGt(buy_strength, sell_strength) /\ RGt(buy_strength, Threshold)
        THEN Signal("buy", buy_strength, "buy reasons")
        ELSE IF RGt(sell_strength, buy_strength)
                  /\ RGt(sell_strength, Threshold)
        THEN Signal("sell", sell_strength, "sell reasons")
        ELSE Signal("hold", Half, "mixed signals")

aggregate_signals(sigs) ==
    LET buy_strength == Aggregate(sigs, "buy")
        sell_strength == Aggregate(sigs, "sell")
    IN  IF RGt(buy_strength, sell_strength) /\ RGt(buy_strength, Threshold)
        THEN Signal("buy", buy_strength, "buy reasons")
        ELSE IF RGt(sell_strength, buy_strength)
                  /\ RGt(sell_strength, Threshold)
        THEN Signal("sell", sell_strength, "sell reasons")
        ELSE Signal("hold", Half, "mixed signals")

\* int(x) for x >= 0
Floor(x) == x.n \div x.d

\* the entry of analysis[ticker] built from the consensus c
Analysis(c) ==
    [signal |-> c.action,
     strength |-> c.strength,
     score |-> IF c.action = "buy"
               THEN Floor(RMul(c.strength, R(100)))
               ELSE Floor(RMul(RSub(R(1), c.strength), R(50))),
     unavailable |-> FALSE]

\* the entry of analysis[ticker] of the except branch
AnalysisUnavailable ==
    [signal |-> "hold", strength |-> Half, score |-> 50, unavailable |-> TRUE]

\* --------------------------------- the technical analysis of a ticker ----
\* prices = pd.Series(hist_data.close): the bars the provider has today
Prices == SubSeq(hist, 1, today)

NoSignal == [none |-> TRUE]

NoCall == [bars |-> 0, signals |-> << >>, analysis |-> NoResult]

\* signals.append(s), or the except branch if the generator raised
Generated(s, next) ==
    /\ IF Raised(s)
       THEN /\ analysis' = AnalysisUnavailable
            /\ tpc' = "done"
            /\ UNCHANGED signals
       ELSE /\ signals' = Append(signals, s)
            /\ tpc' = next
            /\ UNCHANGED analysis
    /\ UNCHANGED << hist, today, consensus, earlier >>
    /\ UNCHANGED << btVars, rkVars, plVars, ftVars, rpVars >>

SmaCrossoverSignal ==
    /\ tpc = "sma_crossover"
    /\ Generated(sma_crossover_signal(Prices), "macd")

MacdSignal ==
    /\ tpc = "macd"
    /\ Generated(macd_signal(Prices), "rsi")

RsiSignal ==
    /\ tpc = "rsi"
    /\ Generated(rsi_signal(Prices), "bollinger")

BollingerBandsSignal ==
    /\ tpc = "bollinger"
    /\ Generated(bollinger_bands_signal(Prices), "momentum")

MomentumSignal ==
    /\ tpc = "momentum"
    /\ Generated(momentum_signal(Prices), "aggregate")

\* consensus = aggregate_signals(signals) and the entry analysis[ticker]
AggregateSignals ==
    /\ tpc = "aggregate"
    /\ consensus' = aggregate_signals(signals)
    /\ analysis' = Analysis(consensus')
    /\ tpc' = "done"
    /\ UNCHANGED << hist, today, signals, earlier >>
    /\ UNCHANGED << btVars, rkVars, plVars, ftVars, rpVars >>

\* the analysis is called again, on the same bars or with one bar more
Call(bars) ==
    /\ tpc = "done"
    /\ earlier' = [bars |-> today, signals |-> signals, analysis |-> analysis]
    /\ today' = bars
    /\ signals' = << >>
    /\ consensus' = NoSignal
    /\ analysis' = NoResult
    /\ tpc' = "sma_crossover"
    /\ UNCHANGED hist
    /\ UNCHANGED << btVars, rkVars, plVars, ftVars, rpVars >>

CallAgain == earlier.bars # today /\ Call(today)

CallNextDay == today < Len(hist) /\ Call(today + 1)

\* ------------------------------------------------------------ inputs ----
\* the longest history short of the full momentum look-back, and past it
HistBars == 70

FullBars == lookback_default + 4

\* the histories the provider has, with the number of bars of the first call
Histories ==
    {[close |-> Series(sh, HistBars), first |-> 1] :
         sh \in {SquareWave, Triangle, Saw, WideSquare}}
    \cup {[close |-> Series(FastSquare, FullBars), first |-> FullBars - 3]}

TaInit ==
    /\ \E h \in Histories : hist = h.close /\ today = h.first
    /\ tpc = "sma_crossover"
    /\ signals = << >>
    /\ consensus = NoSignal
    /\ analysis = NoResult
    /\ earlier = NoCall
    /\ BtIdle
    /\ RkIdle
    /\ PlIdle
    /\ FtIdle
    /\ RpIdle

TaNext ==
    \/ SmaCrossoverSignal
    \/ MacdSignal
    \/ RsiSignal
    \/ BollingerBandsSignal
    \/ MomentumSignal
    \/ AggregateSignals
    \/ CallAgain
    \/ CallNextDay

TechnicalSpec == TaInit /\ [][TaNext]_vars

\* -------------------------------------- aggregate_signals called alone ----
MaxSignals == 3

Strengths == {Zero, Threshold, Rat(4, 5), R(1)}

SignalsOf(n) ==
    [1..n -> [action : {"buy", "sell", "hold"}, strength : Strengths,
              reason : {"r"}]]

\* the lists of up to MaxSignals signals, and five buys of strength 0.8
SignalLists ==
    UNION {SignalsOf(n) : n \in 0..MaxSignals}
    \cup {[k \in 1..5 |-> Signal("buy", Rat(4, 5), "r")]}

AggInit ==
    /\ signals \in SignalLists
    /\ tpc = "aggregate"
    /\ hist = << >>
    /\ today = 0
    /\ consensus = NoSignal
    /\ analysis = NoResult
    /\ earlier = NoCall
    /\ BtIdle
    /\ RkIdle
    /\ PlIdle
    /\ FtIdle
    /\ RpIdle

AggNext == AggregateSignals

AggregateSpec == AggInit /\ [][AggNext]_vars

(***************************************************************************)
(* Part 3: the risk manager and the portfolio optimizer of AgentRouter     *)
(* (backend/app/agents/router.py).                                         *)
(*                                                                         *)
(* A ticker is a number, the universe a sequence of distinct tickers, an   *)
(* analysis a function from the tickers that have an entry to the entry.   *)
(* Scores, volatilities and Sharpe ratios are exact rationals.  Of a       *)
(* ranked pick the current price and the rationale text are left out.      *)
(***************************************************************************)

\* ------------------------------------------- constants of router.py ----
TopPicks == 10
DefaultBudget == 500
DefaultScore == 50
WithinScore == 100
OutsideScore == 30

\* tech.get("volatility", 0.3)
DefaultVolatility == Rat(3, 10)

\* risk_thresholds.get(risk_preference, risk_thresholds["moderate"])
RiskThresholds(preference) ==
    CASE preference = "conservative" ->
           [max_volatility |-> Rat(2, 10), min_sharpe |-> Rat(5, 10)]
      [] preference = "aggressive" ->
           [max_volatility |-> Rat(8, 10), min_sharpe |-> Zero]
      [] OTHER -> [max_volatility |-> Rat(4, 10), min_sharpe |-> Rat(3, 10)]

\* the weights of the four categories, in hundredths
Weights(preference) ==
    CASE preference = "conservative" ->
           [fundamental |-> 40, technical |-> 20, sentiment |-> 10,
            risk |-> 30]
      [] preference = "aggressive" ->
           [fundamental |-> 20, technical |-> 40, sentiment |-> 20,
            risk |-> 20]
      [] OTHER ->
           [fundamental |-> 30, technical |-> 30, sentiment |-> 15,
            risk |-> 25]

\* state.get(key, {}).get(ticker, {}): the entry, or the empty dict
Entry(dict, ticker) == IF ticker \in DOMAIN dict THEN dict[ticker] ELSE << >>

\* entry.get(key, default)
Get(entry, key, default) == IF key \in DOMAIN entry THEN entry[key] ELSE default

\* -------------------------------------------------- _risk_assessment ----
RiskLevel(volatility) ==
    IF RLt(volatility, Rat(15, 100)) THEN "low"
    ELSE IF RLt(volatility, Rat(3, 10)) THEN "medium"
    ELSE "high"

\* assessment[ticker]
Assessment(tech, thresholds) ==
    LET volatility == Get(tech, "volatility", DefaultVolatility)
        sharpe == Get(tech, "sharpe_ratio", Zero)
    IN  [risk_level |-> RiskLevel(volatility),
         volatility |-> volatility,
         sharpe_ratio |-> sharpe,
         within_tolerance |-> RLe(volatility, thresholds.max_volatility)
                               /\ RGe(sharpe, thresholds.min_sharpe)]

\* ----------------------------------------------- _optimize_portfolio ----
\* r_score taken from the risk level instead of within_tolerance
RiskScoreByLevel(risk) ==
    IF Get(risk, "risk_level", "medium") # "high" THEN WithinScore
    ELSE OutsideScore

\* r_score = 100 if risk.get("within_tolerance", True) else 30
RiskScore(risk) ==
    IF Get(risk, "within_tolerance", TRUE) THEN WithinScore ELSE OutsideScore

\* combined_scores[ticker]
Scores(ticker, st) ==
    LET w == Weights(st.risk_preference)
        f_score == Get(Entry(st.fundamental_analysis, ticker), "score",
                       DefaultScore)
        t_score == Get(Entry(st.technical_analysis, ticker), "score",
                       DefaultScore)
        s_score == Get(Entry(st.sentiment_analysis, ticker), "score",
                       DefaultScore)
        r_score == RiskScore(Entry(st.risk_assessment, ticker))
    IN  [combined_score |->
             Rat(f_score * w.fundamental + t_score * w.technical
                   + s_score * w.sentiment + r_score * w.risk, 100),
         fundamental_score |-> f_score,
         technical_score |-> t_score,
         sentiment_score |-> s_score,
         risk_score |-> r_score]

\* the place of ticker in the universe
Place(univ, ticker) == CHOOSE k \in 1..Len(univ) : univ[k] = ticker

\* sorted(...) with equal scores in the order of the later ticker first
PrecedesLaterFirst(univ, score, a, b) ==
    \/ RGt(score[a], score[b])
    \/ score[a] = score[b] /\ Place(univ, a) > Place(univ, b)

\* sorted(..., reverse=True) is stable: a comes before b if its score is
\* greater, or equal and a was inserted first
Precedes(univ, score, a, b) ==
    \/ RGt(score[a], score[b])
    \/ score[a] = score[b] /\ Place(univ, a) < Place(univ, b)

\* sorted(combined_scores.items(), key=combined_score, reverse=True)
Sorted(univ, score) ==
    LET n == Len(univ)
        before == Values([p \in 1..n |->
                             Cardinality({q \in 1..n :
                                 Precedes(univ, score, univ[q], univ[p])})])
    IN  [k \in 1..n |-> univ[CHOOSE p \in 1..n : before[p] = k - 1]]

\* the sorted list without [:10]
RankedUncut(univ, score) == Sorted(univ, score)

\* the first TopPicks of the sorted list
Ranked(univ, score) ==
    SubSeq(Sorted(univ, score), 1, Min(TopPicks, Len(univ)))

RECURSIVE RSum(_)
\* sum of a sequence of rationals
RSum(q) == IF q = << >> THEN Zero ELSE RAdd(Head(q), RSum(Tail(q)))

\* total_score summed over the whole universe, not over the kept picks
TotalOfUniverse(st, ranked) ==
    RSum([k \in 1..Len(st.universe) |->
              Scores(st.universe[k], st).combined_score])

\* total_score = sum(item[1]["combined_score"] for item in ranked)
TotalScore(st, ranked) ==
    RSum([k \in 1..Len(ranked) |-> Scores(ranked[k], st).combined_score])

\* allocation_pct
AllocationPct(combined, total_score) ==
    IF RGt(total_score, Zero) THEN RMul(RDiv(combined, total_score), R(100))
    ELSE R(10)

\* expected_yield, capped to [-0.5, 1.0]
ExpectedYield(tech) ==
    LET hist_return == Get(tech, "historical_return", Zero)
        signal_strength == Get(tech, "strength", Half)
        signal == Get(tech, "signal", "none")
        expected_yield ==
            IF signal = "buy"
            THEN RMul(hist_return, RAdd(R(1), RMul(signal_strength, Half)))
            ELSE IF signal = "sell" THEN RMul(hist_return, Half)
            ELSE RMul(hist_return, Rat(8, 10))
    IN  RMax(RNeg(Half), RMin(R(1), expected_yield))

\* the ranked_picks of the state st
RankedPicks(st) ==
    LET combined_scores ==
            Values([k \in 1..Len(st.universe) |-> Scores(st.universe[k], st)])
        score == [t \in {st.universe[k] : k \in 1..Len(st.universe)} |->
                      combined_scores[Place(st.universe, t)].combined_score]
        ranked == Ranked(st.universe, score)
        total_score == TotalScore(st, ranked)
    IN  [k \in 1..Len(ranked) |->
            LET ticker == ranked[k]
                scores == Scores(ticker, st)
                allocation_pct ==
                    AllocationPct(scores.combined_score, total_score)
            IN  [rank |-> k,
                 ticker |-> ticker,
                 current_price |->
                     Get(Entry(st.price_data, ticker), "current_price", 0),
                 expected_1y_yield |->
                     ExpectedYield(Entry(st.technical_analysis, ticker)),
                 confidence |-> RDiv(scores.combined_score, R(100)),
                 risk_level |-> Get(Entry(st.risk_assessment, ticker),
                                    "risk_level", "medium"),
                 allocation_percent |-> allocation_pct,
                 allocation_amount |->
                     RMul(R(st.budget), RDiv(allocation_pct, R(100))),
                 scores |-> scores]]

\* the ResearchState the risk manager and the optimizer read
State ==
    [universe |-> universe, risk_preference |-> risk_preference,
     budget |-> budget, fundamental_analysis |-> fundamental_analysis,
     technical_analysis |-> technical_analysis,
     sentiment_analysis |-> sentiment_analysis,
     risk_assessment |-> risk_assessment, price_data |-> price_data]

Tickers == {universe[k] : k \in 1..Len(universe)}

\* the nodes of _build_graph in the order of its edges
Nodes ==
    << "filter_universe", "gather_data", "fundamental_analyst",
       "technical_analyst", "sentiment_analyst", "risk_manager",
       "portfolio_optimizer", "report_generator" >>

\* the edges with sentiment_analyst connected to portfolio_optimizer
EdgePastRisk(node) ==
    IF node = "report_generator" THEN "done"
    ELSE IF node = "sentiment_analyst" THEN "portfolio_optimizer"
    ELSE Nodes[(CHOOSE k \in 1..Len(Nodes) : Nodes[k] = node) + 1]

\* add_edge(node, next): the node that runs after node, "done" for END
Edge(node) ==
    IF node = "report_generator" THEN "done"
    ELSE Nodes[(CHOOSE k \in 1..Len(Nodes) : Nodes[k] = node) + 1]

\* the node risk_manager
RiskManager ==
    /\ rpc = "risk_manager"
    /\ risk_assessment' =
         [t \in Tickers |->
              Assessment(Entry(technical_analysis, t),
                         RiskThresholds(risk_preference))]
    /\ rpc' = Edge("risk_manager")
    /\ trace' = Append(trace, "risk_manager")
    /\ UNCHANGED << universe, risk_preference, budget, fundamental_analysis,
                    technical_analysis, sentiment_analysis, ranked_picks,
                    allocations >>
    /\ UNCHANGED << asset_classes, specific_tickers, price_data, full_report,
                    provider >>
    /\ UNCHANGED << btVars, taVars, ftVars, rpVars >>

\* the node portfolio_optimizer
PortfolioOptimizer ==
    /\ rpc = "portfolio_optimizer"
    /\ ranked_picks' = RankedPicks(State)
    /\ allocations' =
         LET picks == ranked_picks'
         IN  [t \in {picks[k].ticker : k \in 1..Len(picks)} |->
                  LET k == CHOOSE j \in 1..Len(picks) : picks[j].ticker = t
                  IN  picks[k].allocation_percent]
    /\ rpc' = Edge("portfolio_optimizer")
    /\ trace' = Append(trace, "portfolio_optimizer")
    /\ UNCHANGED << universe, risk_preference, budget, fundamental_analysis,
                    technical_analysis, sentiment_analysis, risk_assessment >>
    /\ UNCHANGED << asset_classes, specific_tickers, price_data, full_report,
                    provider >>
    /\ UNCHANGED << btVars, taVars, ftVars, rpVars >>

\* the node report_generator: the header counts the universe, then one
\* section per ranked pick; the edge to END
ReportGenerator ==
    /\ rpc = "report_generator"
    /\ full_report' =
         [screened |-> Len(universe),
          picks |-> [k \in 1..Len(ranked_picks) |->
                        << ranked_picks[k].rank, ranked_picks[k].ticker >>]]
    /\ rpc' = Edge("report_generator")
    /\ trace' = Append(trace, "report_generator")
    /\ UNCHANGED << universe, risk_preference, budget, fundamental_analysis,
                    technical_analysis, sentiment_analysis, risk_assessment,
                    ranked_picks, allocations >>
    /\ UNCHANGED << asset_classes, specific_tickers, price_data, provider >>
    /\ UNCHANGED << btVars, taVars, ftVars, rpVars >>

\* ------------------------------------------------------------ inputs ----
MaxUniverse == 12

Preferences == {"conservative", "moderate", "aggressive", "balanced"}

\* analysis[ticker] of _technical_analysis with the metrics of the returns
Technical(signal, strength, hist_return, vol, sharpe) ==
    [signal |-> signal, strength |-> strength,
     score |-> Analysis(Signal(signal, strength, "r")).score,
     historical_return |-> hist_return, volatility |-> vol,
     sharpe_ratio |-> sharpe]

\* analysis[ticker] of the except branch: no metrics
TechnicalUnavailable == [signal |-> "hold", strength |-> Half, score |-> 50]

\* the assets: fundamental score, technical entry (<< >> if the ticker has
\* none), sentiment score
Profiles ==
    << [f |-> 80, s |-> 70,
        tech |-> Technical("buy", Rat(4, 5), Rat(1, 2), Rat(1, 10), R(1))],
       [f |-> 50, s |-> 50,
        tech |-> Technical("hold", Half, Rat(1, 10), Rat(2, 10), Rat(5, 10))],
       [f |-> 65, s |-> 30, tech |-> TechnicalUnavailable],
       [f |-> 40, s |-> 50,
        tech |-> Technical("sell", Rat(4, 5), Rat(-6, 5), Rat(9, 10), R(2))],
       [f |-> 60, s |-> 70,
        tech |-> Technical("buy", Half, R(2), Rat(3, 10), Rat(-1, 2))],
       [f |-> 75, s |-> 50,
        tech |-> Technical("hold", Half, Rat(1, 5), Rat(1, 10), R(-1))],
       [f |-> 55, s |-> 30, tech |-> << >>] >>

ProfileOf(ticker, offset) == Profiles[((ticker + offset) % Len(Profiles)) + 1]

RkInit ==
    /\ \E n \in 0..MaxUniverse : \E reversed \in BOOLEAN :
         universe = [k \in 1..n |-> IF reversed THEN n + 1 - k ELSE k]
    /\ risk_preference \in Preferences
    /\ budget = DefaultBudget
    /\ \E offset \in {0, 2, 5} :
         /\ fundamental_analysis =
              [t \in Tickers |-> [score |-> ProfileOf(t, offset).f]]
         /\ technical_analysis =
              [t \in {u \in Tickers : ProfileOf(u, offset).tech # << >>} |->
                   ProfileOf(t, offset).tech]
         /\ sentiment_analysis =
              [t \in Tickers |-> [score |-> ProfileOf(t, offset).s]]
    /\ risk_assessment = << >>
    /\ ranked_picks = << >>
    /\ allocations = << >>
    /\ rpc = "risk_manager"
    /\ PlIdle
    /\ BtIdle
    /\ TaIdle
    /\ FtIdle
    /\ RpIdle

RkNext ==
    \/ RiskManager
    \/ PortfolioOptimizer
    \/ ReportGenerator

RankSpec == RkInit /\ [][RkNext]_vars

\* ================================ Part 4: the research run (router.py) ====
\* universe[:50]
UniverseLimit == 50

\* the sizes of the three ticker lists of get_robinhood_universe
StockCount == 45

EtfCount == 12

CryptoCount == 10

\* tickers are numbered: the stocks, then MAJOR_ETFS, then the crypto pairs
Stocks == 1..StockCount

Etfs == (StockCount + 1)..(StockCount + EtfCount)

Crypto ==
    (StockCount + EtfCount + 1)..(StockCount + EtfCount + CryptoCount)

Tradable == Stocks \cup Etfs \cup Crypto

\* a ticker Robinhood does not trade
Untradable == StockCount + EtfCount + CryptoCount + 1

\* a value that is None, or a dict entry that is missing
Unavailable == << >>

\* the elements of a list
Elements(q) == {q[k] : k \in 1..Len(q)}

\* list(set(tickers)): the distinct tickers, in an order the set decides
ListOfSet(S, descending) ==
    LET all == [k \in 1..Untradable |->
                    IF descending THEN Untradable + 1 - k ELSE k]
    IN  SelectSeq(all, LAMBDA t : t \in S)

get_robinhood_universe(classes, descending) ==
    ListOfSet((IF "stock" \in classes \/ "stocks" \in classes
               THEN Stocks ELSE {})
              \cup (IF "etf" \in classes \/ "etfs" \in classes
                    THEN Etfs ELSE {})
              \cup (IF "crypto" \in classes THEN Crypto ELSE {}),
              descending)

\* universe[:50] without the slice
Uncut(q) == q

\* universe[:50]
Cut(q) == SubSeq(q, 1, Min(UniverseLimit, Len(q)))

\* the node filter_universe
FilterUniverse ==
    /\ rpc = "filter_universe"
    /\ \E descending \in BOOLEAN :
         LET tradable == get_robinhood_universe(asset_classes, descending)
             chosen == IF specific_tickers # << >>
                       THEN SelectSeq(specific_tickers,
                                      LAMBDA t : t \in Elements(tradable))
                       ELSE tradable
         IN  universe' = Cut(chosen)
    /\ rpc' = Edge("filter_universe")
    /\ trace' = Append(trace, "filter_universe")
    /\ UNCHANGED << risk_preference, budget, fundamental_analysis,
                    technical_analysis, sentiment_analysis, risk_assessment,
                    ranked_picks, allocations >>
    /\ UNCHANGED << asset_classes, specific_tickers, price_data, full_report,
                    provider >>
    /\ UNCHANGED << btVars, taVars, ftVars, rpVars >>

\* PriceData.model_dump() of a ticker; a missing optional field is 0 (None
\* and 0 are both false where the fields are tested); market_cap in billions
PriceProfiles ==
    << [current_price |-> 95, pe_ratio |-> 12, market_cap |-> 200,
        dividend_yield |-> Rat(3, 100), fifty_two_week_high |-> 100,
        fifty_two_week_low |-> 50],
       [current_price |-> 75, pe_ratio |-> 0, market_cap |-> 5,
        dividend_yield |-> Zero, fifty_two_week_high |-> 0,
        fifty_two_week_low |-> 50],
       [current_price |-> 55, pe_ratio |-> 12, market_cap |-> 5,
        dividend_yield |-> Rat(2, 100), fifty_two_week_high |-> 100,
        fifty_two_week_low |-> 50],
       [current_price |-> 75, pe_ratio |-> 60, market_cap |-> 10,
        dividend_yield |-> Zero, fifty_two_week_high |-> 100,
        fifty_two_week_low |-> 50],
       [current_price |-> 95, pe_ratio |-> 20, market_cap |-> 0,
        dividend_yield |-> Zero, fifty_two_week_high |-> 100,
        fifty_two_week_low |-> 50],
       [current_price |-> 60, pe_ratio |-> 14, market_cap |-> 101,
        dividend_yield |-> Zero, fifty_two_week_high |-> 100,
        fifty_two_week_low |-> 50],
       [current_price |-> 50, pe_ratio |-> 30, market_cap |-> 11,
        dividend_yield |-> Zero, fifty_two_week_high |-> 50,
        fifty_two_week_low |-> 50] >>

\* what get_current_price returns for the ticker in this run
PriceOf(ticker) ==
    IF ticker \in provider.down THEN Unavailable
    ELSE PriceProfiles[((ticker + provider.offset) % Len(PriceProfiles)) + 1]

\* what _technical_analysis gets for the ticker in this run: no entry if
\* get_historical_data returns None, the entry of the except branch, or an
\* analysis with the metrics of the returns
TechnicalOf(ticker) == ProfileOf(ticker, provider.offset).tech

\* get_multiple_prices: dict(zip(tickers, results))
get_multiple_prices(tickers) == [t \in Elements(tickers) |-> PriceOf(t)]

\* valid_tickers without the test p is not None
AllTickers(tickers, prices) == tickers

\* the keys of price_data whose value is not None, in insertion order
ValidTickers(tickers, prices) ==
    LET first == SelectSeq([k \in 1..Len(tickers) |-> k],
                           LAMBDA k : /\ \A j \in 1..(k - 1) :
                                           tickers[j] # tickers[k]
                                      /\ prices[tickers[k]] # Unavailable)
    IN  [k \in 1..Len(first) |-> tickers[first[k]]]

\* the node gather_data
GatherData ==
    /\ rpc = "gather_data"
    /\ price_data' = get_multiple_prices(universe)
    /\ universe' = ValidTickers(universe, get_multiple_prices(universe))
    /\ rpc' = Edge("gather_data")
    /\ trace' = Append(trace, "gather_data")
    /\ UNCHANGED << risk_preference, budget, fundamental_analysis,
                    technical_analysis, sentiment_analysis, risk_assessment,
                    ranked_picks, allocations >>
    /\ UNCHANGED << asset_classes, specific_tickers, full_report, provider >>
    /\ UNCHANGED << btVars, taVars, ftVars, rpVars >>

\* score of _fundamental_analysis: 50, the P/E steps, the market cap steps,
\* the dividend step, then min(100, max(0, score))
FundamentalScore(price_info) ==
    LET pe_ratio == price_info.pe_ratio
        market_cap == price_info.market_cap
        dividend_yield == price_info.dividend_yield
        pe == IF pe_ratio = 0 THEN 0
              ELSE IF pe_ratio < 15 THEN 15
              ELSE IF pe_ratio < 25 THEN 10
              ELSE IF pe_ratio > 50 THEN -10
              ELSE 0
        cap == IF market_cap = 0 THEN 0
               ELSE IF market_cap > 100 THEN 10
               ELSE IF market_cap > 10 THEN 5
               ELSE 0
        dividend == IF dividend_yield # Zero /\ RGt(dividend_yield, Rat(2, 100))
                    THEN 5 ELSE 0
    IN  Min(100, Max(0, 50 + pe + cap + dividend))

\* the node fundamental_analyst: tickers without price_info are skipped
FundamentalAnalyst ==
    /\ rpc = "fundamental_analyst"
    /\ fundamental_analysis' =
         [t \in {u \in Tickers : Entry(price_data, u) # Unavailable} |->
              [score |-> FundamentalScore(price_data[t])]]
    /\ rpc' = Edge("fundamental_analyst")
    /\ trace' = Append(trace, "fundamental_analyst")
    /\ UNCHANGED << universe, risk_preference, budget, technical_analysis,
                    sentiment_analysis, risk_assessment, ranked_picks,
                    allocations >>
    /\ UNCHANGED << asset_classes, specific_tickers, price_data, full_report,
                    provider >>
    /\ UNCHANGED << btVars, taVars, ftVars, rpVars >>

\* the node technical_analyst: a ticker whose history is unavailable is
\* skipped (continue) and stays in the universe
TechnicalAnalyst ==
    /\ rpc = "technical_analyst"
    /\ technical_analysis' =
         [t \in {u \in Tickers : TechnicalOf(u) # Unavailable} |->
              TechnicalOf(t)]
    /\ rpc' = Edge("technical_analyst")
    /\ trace' = Append(trace, "technical_analyst")
    /\ UNCHANGED << universe, risk_preference, budget, fundamental_analysis,
                    sentiment_analysis, risk_assessment, ranked_picks,
                    allocations >>
    /\ UNCHANGED << asset_classes, specific_tickers, price_data, full_report,
                    provider >>
    /\ UNCHANGED << btVars, taVars, ftVars, rpVars >>

\* score of _sentiment_analysis from the position in the 52-week range
SentimentScore(price_info) ==
    LET current == price_info.current_price
        high_52w == price_info.fifty_two_week_high
        low_52w == price_info.fifty_two_week_low
        range_position == IF high_52w # 0 /\ low_52w # 0 /\ high_52w # low_52w
                    THEN Rat(current - low_52w, high_52w - low_52w)
                    ELSE Half
    IN  IF RGt(range_position, Rat(8, 10)) THEN 70
        ELSE IF RLt(range_position, Rat(2, 10)) THEN 30
        ELSE 50

\* the node sentiment_analyst
SentimentAnalyst ==
    /\ rpc = "sentiment_analyst"
    /\ sentiment_analysis' =
         [t \in Tickers |->
              IF Entry(price_data, t) # Unavailable
              THEN [score |-> SentimentScore(price_data[t])]
              ELSE [score |-> 50]]
    /\ rpc' = Edge("sentiment_analyst")
    /\ trace' = Append(trace, "sentiment_analyst")
    /\ UNCHANGED << universe, risk_preference, budget, fundamental_analysis,
                    technical_analysis, risk_assessment, ranked_picks,
                    allocations >>
    /\ UNCHANGED << asset_classes, specific_tickers, price_data, full_report,
                    provider >>
    /\ UNCHANGED << btVars, taVars, ftVars, rpVars >>

\* ------------------------------------------------------------ inputs ----
\* the asset classes of a request
ClassRequests ==
    {{}, {"bonds"}, {"crypto"}, {"stocks"}, {"stocks", "etfs"},
     {"etfs", "crypto", "mutual_funds"}, {"stocks", "etfs", "crypto"}}

\* the number of tickers of the longest list of specific tickers
ManySpecific == 60

\* specific_tickers: none, a few with a repeated and an untradable one, many
SpecificRequests ==
    {<< >>, << 50, 3, Untradable, 3, 60, 7 >>,
     [k \in 1..ManySpecific |-> k]}

\* the tickers whose price fetch fails: none, every fourth, all
Outages == {{}, {t \in Tradable : t % 4 = 0}, Tradable}

\* run_research: the initial ResearchState
PlInit ==
    /\ asset_classes \in ClassRequests
    /\ specific_tickers \in SpecificRequests
    /\ risk_preference \in {"conservative", "moderate"}
    /\ budget = DefaultBudget
    /\ \E down \in Outages : \E offset \in {0, 3} :
         provider = [down |-> down, offset |-> offset]
    /\ universe = << >>
    /\ price_data = << >>
    /\ fundamental_analysis = << >>
    /\ technical_analysis = << >>
    /\ sentiment_analysis = << >>
    /\ risk_assessment = << >>
    /\ ranked_picks = << >>
    /\ allocations = << >>
    /\ full_report = << >>
    /\ trace = << >>
    /\ rpc = "filter_universe"
    /\ BtIdle
    /\ TaIdle
    /\ FtIdle
    /\ RpIdle

\* graph.ainvoke: the nodes along the edges of _build_graph
PlNext ==
    \/ FilterUniverse
    \/ GatherData
    \/ FundamentalAnalyst
    \/ TechnicalAnalyst
    \/ SentimentAnalyst
    \/ RiskManager
    \/ PortfolioOptimizer
    \/ ReportGenerator

PipelineSpec == PlInit /\ [][PlNext]_vars

\* ================= Part 5: a batch of price fetches (data_pipeline.py) ====
\* the longest batch
MaxBatch == 3

\* the tickers of the batches
BatchTickers == {1, 2}

\* the PriceData _fetch_ticker_info builds for a ticker
PriceData(ticker) == [ticker |-> ticker, current_price |-> 10 * ticker]

\* a task of get_current_price that has returned: the data, None because
\* _fetch_ticker_info caught an error, or None because the await raised and
\* get_current_price caught it
Returned(ticker, outcome) ==
    [outcome |-> outcome,
     value |-> IF outcome = "data" THEN PriceData(ticker) ELSE Unavailable]

\* a task that has not returned: "pending" before the executor call,
\* "running" in it, "hung" in a call that never ends
Awaiting(stage) == [outcome |-> stage, value |-> Unavailable]

HasReturned(task) == task.outcome \in {"data", "none", "raised"}

\* the last position of the ticker in the batch
LastOf(tickers, t) ==
    CHOOSE k \in 1..Len(tickers) :
        tickers[k] = t /\ \A j \in (k + 1)..Len(tickers) : tickers[j] # t

\* dict(zip(tickers, results)) without the entries that are None
ZippedAvailable(tickers, results) ==
    [t \in {u \in Elements(tickers) :
                results[LastOf(tickers, u)].value # Unavailable} |->
         results[LastOf(tickers, t)].value]

\* dict(zip(tickers, results)): a repeated ticker keeps its last result
Zipped(tickers, results) ==
    [t \in Elements(tickers) |-> results[LastOf(tickers, t)].value]

\* get_current_price reaches await loop.run_in_executor(...)
RunInExecutor(k) ==
    /\ fpc = "gather"
    /\ fetch[k] = Awaiting("pending")
    /\ fetch' = [fetch EXCEPT ![k] = Awaiting("running")]
    /\ UNCHANGED << batch, prices_out, fpc >>
    /\ UNCHANGED << btVars, taVars, rkVars, plVars, rpVars >>

\* the executor call ends: with the data, with None from the except branch
\* of _fetch_ticker_info, or with an exception that get_current_price
\* catches, prints and turns into None
FetchEnds(k, outcome) ==
    /\ fpc = "gather"
    /\ fetch[k] = Awaiting("running")
    /\ fetch' = [fetch EXCEPT ![k] = Returned(batch[k], outcome)]
    /\ UNCHANGED << batch, prices_out, fpc >>
    /\ UNCHANGED << btVars, taVars, rkVars, plVars, rpVars >>

\* the provider call of the task never returns: nothing bounds the await
ProviderHangs(k) ==
    /\ fpc = "gather"
    /\ fetch[k] = Awaiting("running")
    /\ fetch' = [fetch EXCEPT ![k] = Awaiting("hung")]
    /\ UNCHANGED << batch, prices_out, fpc >>
    /\ UNCHANGED << btVars, taVars, rkVars, plVars, rpVars >>

\* asyncio.gather(*tasks) has every result; return dict(zip(...))
Gather ==
    /\ fpc = "gather"
    /\ \A k \in 1..Len(batch) : HasReturned(fetch[k])
    /\ prices_out' = Zipped(batch, fetch)
    /\ fpc' = "done"
    /\ UNCHANGED << batch, fetch >>
    /\ UNCHANGED << btVars, taVars, rkVars, plVars, rpVars >>

RECURSIVE Batches(_)
\* the lists of n tickers
Batches(n) ==
    IF n = 0 THEN {<< >>}
    ELSE {Append(b, t) : b \in Batches(n - 1), t \in BatchTickers}

\* get_multiple_prices(tickers): one task per position of the list
FtInit ==
    /\ \E n \in 0..MaxBatch : batch \in Batches(n)
    /\ fetch = [k \in 1..Len(batch) |-> Awaiting("pending")]
    /\ prices_out = << >>
    /\ fpc = "gather"
    /\ BtIdle
    /\ TaIdle
    /\ RkIdle
    /\ PlIdle
    /\ RpIdle

FtNext ==
    \/ \E k \in 1..Len(batch) : RunInExecutor(k)
    \/ \E k \in 1..Len(batch) :
         \E outcome \in {"data", "none", "raised"} : FetchEnds(k, outcome)
    \/ \E k \in 1..Len(batch) : ProviderHangs(k)
    \/ Gather

FetchSpec == FtInit /\ [][FtNext]_vars

\* the event loop runs every task that can run and the executor starts
\* every call; whether a started call ends is up to the provider
FetchLive == FetchSpec /\ WF_vars(FtNext)

\* ============== Part 6: the report of a research run (research.py) ====
\* the number of reports generated
MaxReports == 2

\* Report(..., status="pending"): a new row, its results not set
NewReport ==
    [status |-> "pending", top_10_picks |-> "", full_analysis |-> "",
     deleted |-> FALSE]

\* run_research_task as queued by background_tasks.add_task
NewTask == [at |-> "queued", error |-> ""]

\* report.status = "processing"
Processing(row) == [row EXCEPT !.status = "processing"]

\* the results stored, report.status = "completed"
Completed(row) ==
    [row EXCEPT !.top_10_picks = "ranked_picks",
                !.full_analysis = "full_report",
                !.status = "completed"]

\* the except branch storing the error text and leaving the status
FailedUnmarked(row, error) == [row EXCEPT !.full_analysis = error]

\* the except branch: report.status = "failed" and the error text
Failed(row, error) ==
    [row EXCEPT !.status = "failed", !.full_analysis = error]

\* POST /research/generate with valid asset classes and risk preference
GenerateResearch ==
    /\ Len(reports) < MaxReports
    /\ reports' = Append(reports, NewReport)
    /\ tasks' = Append(tasks, NewTask)
    /\ UNCHANGED << btVars, taVars, rkVars, plVars, ftVars >>

\* run_research_task up to the first commit: return if the row is gone,
\* else mark it processing
TaskStarts(id) ==
    /\ tasks[id].at = "queued"
    /\ IF reports[id].deleted
       THEN /\ tasks' = [tasks EXCEPT ![id].at = "returned"]
            /\ UNCHANGED reports
       ELSE /\ reports' = [reports EXCEPT ![id] = Processing(@)]
            /\ tasks' = [tasks EXCEPT ![id].at = "research"]
    /\ UNCHANGED << btVars, taVars, rkVars, plVars, ftVars >>

\* await agent_router.run_research(...): it returns a result or raises
RunResearch(id, raises) ==
    /\ tasks[id].at = "research"
    /\ tasks' = [tasks EXCEPT
                   ![id] = IF raises
                           THEN [at |-> "except", error |-> "research"]
                           ELSE [at |-> "update", error |-> ""]]
    /\ UNCHANGED reports
    /\ UNCHANGED << btVars, taVars, rkVars, plVars, ftVars >>

\* the results are serialised and committed; json.dumps may raise, and the
\* commit raises if the row was deleted meanwhile
TaskUpdates(id, raises) ==
    /\ tasks[id].at = "update"
    /\ IF raises \/ reports[id].deleted
       THEN /\ tasks' = [tasks EXCEPT
                           ![id] = [at |-> "except", error |-> "update"]]
            /\ UNCHANGED reports
       ELSE /\ reports' = [reports EXCEPT ![id] = Completed(@)]
            /\ tasks' = [tasks EXCEPT ![id].at = "returned"]
    /\ UNCHANGED << btVars, taVars, rkVars, plVars, ftVars >>

\* except Exception: the row is read again and, if it exists, marked failed
TaskFails(id) ==
    /\ tasks[id].at = "except"
    /\ reports' = IF reports[id].deleted THEN reports
                  ELSE [reports EXCEPT ![id] = Failed(@, tasks[id].error)]
    /\ tasks' = [tasks EXCEPT ![id].at = "returned"]
    /\ UNCHANGED << btVars, taVars, rkVars, plVars, ftVars >>

\* DELETE /research/reports/{report_id} by the owner
DeleteReport(id) ==
    /\ ~reports[id].deleted
    /\ reports' = [reports EXCEPT ![id].deleted = TRUE]
    /\ UNCHANGED tasks
    /\ UNCHANGED << btVars, taVars, rkVars, plVars, ftVars >>

RpInit ==
    /\ reports = << >>
    /\ tasks = << >>
    /\ BtIdle
    /\ TaIdle
    /\ RkIdle
    /\ PlIdle
    /\ FtIdle

RpNext ==
    \/ GenerateResearch
    \/ \E id \in 1..Len(reports) : TaskStarts(id)
    \/ \E id \in 1..Len(reports) : \E raises \in BOOLEAN :
         RunResearch(id, raises)
    \/ \E id \in 1..Len(reports) : \E raises \in BOOLEAN :
         TaskUpdates(id, raises)
    \/ \E id \in 1..Len(reports) : TaskFails(id)
    \/ \E id \in 1..Len(reports) : DeleteReport(id)

ReportSpec == RpInit /\ [][RpNext]_vars

\* ============================================================ claims ====
LoopStrategies ==
    {"sma_crossover", "macd", "rsi_reversal", "momentum", "mean_reversion"}

IsBuy(t) == t.type = "buy"

IsSell(t) == t.type = "sell"

\* C1: in the five strategies with a loop the simulation is either flat
\* (position 0, no shares) or long (position 1, no cash, shares > 0); the
\* trade log alternates buy, sell, buy, ... starting with a buy, and the
\* position is long exactly after an odd number of trades.
C1_FlatOrLong ==
    strategy \in LoopStrategies =>
        /\ position \in {0, 1}
        /\ position = 0 => shares = Zero /\ RGt(cash, Zero)
        /\ position = 1 => cash = Zero /\ RGt(shares, Zero)
        /\ \A k \in 1..Len(trades) :
               trades[k].type = IF k % 2 = 1 THEN "buy" ELSE "sell"
        /\ position = Len(trades) % 2

\* a run that is long again after a complete round trip
C1_Witness ==
    /\ strategy \in LoopStrategies
    /\ Len(trades) >= 3
    /\ position = 1
    /\ cash = Zero /\ RGt(shares, Zero)

\* C2 (as claimed): the pnl recorded with every sell is the proceeds of the
\* sale minus the cash that the matching buy committed.
C2_PnlAgainstEntry ==
    \A k \in 2..Len(trades) :
        IsSell(trades[k]) =>
            LET entry == trades[k - 1]
                committed == RMul(entry.shares, R(entry.price))
                proceeds == RMul(entry.shares, R(trades[k].price))
            IN  trades[k].pnl = RSub(proceeds, committed)

\* C3 (as claimed): the win rate of a run with closed trades is the number
\* of closed trades with a positive pnl divided by the number of closed
\* trades.
C3_WinRateOverClosed ==
    pc = "done" =>
        LET closed == {k \in 1..Len(trades) : IsSell(trades[k])}
            won == {k \in closed : RGt(trades[k].pnl, Zero)}
        IN  closed # {} =>
                result.win_rate = Rat(Cardinality(won), Cardinality(closed))

\* the warm-up lengths the strategies are documented with
WarmupBars ==
    CASE strategy = "sma_crossover" -> 50
      [] strategy = "macd" -> 35
      [] strategy = "rsi_reversal" -> 20
      [] strategy = "mean_reversion" -> 25
      [] strategy = "momentum" -> Min(252, Len(close) - 1) + 1

\* C4: during the warm-up bars no trade is recorded, the position stays
\* flat and the equity of each of these bars is the initial capital; an
\* equity value is recorded for every bar, warm-up bars included.
C4_WarmupIsCash ==
    (strategy \in LoopStrategies /\ pc # "start") =>
        /\ Len(equity_curve) = i
        /\ \A k \in 1..Min(i, WarmupBars) : equity_curve[k] = R(initial_capital)
        /\ \A k \in 1..Len(trades) : trades[k].date >= WarmupBars
        /\ i <= WarmupBars => position = 0 /\ trades = << >>
                               /\ cash = R(initial_capital)

\* the loop has just left the warm-up of a strategy
C4_Witness ==
    /\ strategy \in LoopStrategies
    /\ pc = "loop"
    /\ i = WarmupBars
    /\ Len(equity_curve) = WarmupBars
    /\ trades = << >>

\* C5: every bar of a strategy loop appends exactly one equity value,
\* cash + shares * close of that bar, and the trade of the bar leaves
\* cash + shares * close of that bar unchanged.
C5_EquityPerBar ==
    [][(pc = "loop" /\ strategy \in LoopStrategies) =>
        LET p == R(close[i + 1])
            before == RAdd(cash, RMul(shares, p))
            after == RAdd(cash', RMul(shares', p))
        IN  /\ Len(equity_curve) = i
            /\ equity_curve' = Append(equity_curve, before)
            /\ after = before]_vars

\* a bar on which a sell was executed, after an earlier round trip
C5_Witness ==
    /\ strategy \in LoopStrategies
    /\ Len(trades) >= 4
    /\ trades[Len(trades)].date = i - 1
    /\ IsSell(trades[Len(trades)])
    /\ Len(equity_curve) = i

\* the trades of a log that are dated before bar m
Before(tr, m) == SelectSeq(tr, LAMBDA t : t.date < m)

\* C6: two series that agree on their first m bars give the same equity
\* values and the same trades on these bars, and the same position, cash and
\* shares as long as the loop is within these bars, whatever the later bars
\* and the lengths of the two series are.
C6_Causal ==
    LET m == Agree(close, closeB)
        j == Min(i, m)
    IN  pc # "start" =>
            /\ Len(shadow.equity_curve) >= j
            /\ \A k \in 1..j : equity_curve[k] = shadow.equity_curve[k]
            /\ Before(trades, j) = Before(shadow.trades, j)
            /\ (strategy \in LoopStrategies /\ i <= m) =>
                   /\ position = shadow.position
                   /\ cash = shadow.cash
                   /\ shares = shadow.shares

\* both runs have traded on the common bars, and the series differ later
\* or in length
C6_Witness ==
    /\ strategy \in LoopStrategies
    /\ pc = "metrics"
    /\ Agree(close, closeB) < Len(close)
    /\ Len(Before(trades, Agree(close, closeB))) >= 2
    /\ Before(shadow.trades, Agree(close, closeB))
         = Before(trades, Agree(close, closeB))
    /\ shadow.trades # trades

\* C7 (as claimed): the returned equity curve has the entry of bar 0 and the
\* entry of the last bar.
C7_CurveHasLastBar ==
    pc = "done" =>
        LET ec == result.equity_curve
        IN  /\ Len(ec) >= 1
            /\ ec[1].date = 0
            /\ ec[Len(ec)].date = Len(close) - 1

\* C8 (as claimed): the total return formula on the first and the last
\* returned point gives total_return; the first point is the initial capital
\* and the last point the final value.
C8_EndpointsGiveReturn ==
    pc = "done" =>
        LET ec == result.equity_curve
            first == ec[1].value
            last == ec[Len(ec)].value
        IN  /\ RDiv(RSub(last, first), first) = result.total_return
            /\ first = R(result.initial_capital)
            /\ last = result.final_value

\* the equity curve never falls below an earlier value
NeverFalls(eq) == \A k \in 1..Len(eq) - 1 : RLe(eq[k], eq[k + 1])

\* C9: max_drawdown is in [-1, 0], and it is 0 exactly when the equity curve
\* never falls below an earlier value.
C9_DrawdownRange ==
    pc = "done" =>
        /\ RLe(R(-1), result.max_drawdown)
        /\ RLe(result.max_drawdown, Zero)
        /\ result.max_drawdown = Zero <=> NeverFalls(equity_curve)

\* a run that rose first and lost part of its value afterwards
C9_Witness ==
    /\ pc = "done"
    /\ RLt(R(-1), result.max_drawdown)
    /\ RLt(result.max_drawdown, Zero)
    /\ RGt(result.total_return, Zero)

\* C10: buy_and_hold records one buy, of initial_capital / close[0] shares
\* at bar 0 and close[0], and no sell; its total return is
\* close[last] / close[0] - 1, which is 1 for a series from 100 to 200.
C10_BuyAndHold ==
    (strategy = "buy_and_hold" /\ pc \in {"metrics", "done"}) =>
        /\ trades = << [type |-> "buy", date |-> 0, price |-> close[1],
                        shares |-> Rat(initial_capital, close[1])] >>
        /\ pc = "done" =>
             /\ result.total_trades = 1
             /\ result.total_return
                  = RSub(Rat(close[Len(close)], close[1]), R(1))
             /\ (close[1] = 100 /\ close[Len(close)] = 200)
                  => result.total_return = R(1)

\* the result of buy_and_hold on the series rising from 100 to 200
C10_Witness ==
    /\ strategy = "buy_and_hold"
    /\ pc = "done"
    /\ close[1] = 100 /\ close[Len(close)] = 200
    /\ result.total_return = R(1)
    /\ Len(trades) = 1 /\ IsBuy(trades[1])

\* the six names run_backtest compares the strategy id with
KnownStrategies == LoopStrategies \cup {"buy_and_hold"}

\* C11: a strategy id that is not one of the six known names never enters a
\* strategy loop, and run_backtest returns for it exactly the result of
\* 'buy_and_hold' on the same price series and initial capital.
C11_UnknownIsBuyAndHold ==
    strategy \notin KnownStrategies =>
        /\ pc \in {"start", "metrics", "done"}
        /\ pc \in {"metrics", "done"} =>
             Run = BuyAndHoldRun(close, initial_capital)
        /\ pc = "done" =>
             LET bh == BuyAndHoldRun(close, initial_capital)
             IN  result = Metrics(bh.equity_curve, bh.trades, initial_capital)

\* an unknown strategy id has returned a result with the one buy of bar 0
C11_Witness ==
    /\ strategy \notin KnownStrategies
    /\ pc = "done"
    /\ result.total_trades = 1
    /\ result.final_value = RMul(Rat(initial_capital, close[1]),
                                 R(close[Len(close)]))

\* C12: the consensus is buy exactly when the buy aggregate is strictly
\* greater than the sell aggregate and than 0.3, sell exactly when the sell
\* aggregate is strictly greater than the buy aggregate and than 0.3, and
\* hold in every other case.
C12_ConsensusAction ==
    (tpc = "done" /\ consensus # NoSignal) =>
        LET b == Aggregate(signals, "buy")
            s == Aggregate(signals, "sell")
        IN  /\ consensus.action = "buy" <=> (RGt(b, s) /\ RGt(b, Threshold))
            /\ consensus.action = "sell" <=> (RGt(s, b) /\ RGt(s, Threshold))
            /\ consensus.action = "hold"
                  <=> ~(RGt(b, s) /\ RGt(b, Threshold))
                        /\ ~(RGt(s, b) /\ RGt(s, Threshold))

\* a hold on equal buy and sell aggregates above the threshold
C12_Witness ==
    /\ tpc = "done"
    /\ consensus # NoSignal
    /\ consensus.action = "hold"
    /\ Aggregate(signals, "buy") = Aggregate(signals, "sell")
    /\ RGt(Aggregate(signals, "buy"), Threshold)

\* all the signals of a non-empty list are buys of strength s
AllBuy(sigs, s) ==
    /\ Len(sigs) > 0
    /\ \A k \in 1..Len(sigs) : sigs[k].action = "buy" /\ sigs[k].strength = s

\* C13: the strength of a buy or sell consensus is the sum of the strengths
\* of the signals with that action divided by the number of all signals, so
\* n buys of a common strength s > 0.3 give buy with strength s; a hold
\* consensus has strength 0.5; with input strengths in [0,1] the consensus
\* strength is in [0,1].
C13_ConsensusStrength ==
    (tpc = "done" /\ consensus # NoSignal) =>
        /\ consensus.action \in {"buy", "sell"} =>
             consensus.strength
               = RDiv(SumStrength(signals, consensus.action), R(Len(signals)))
        /\ consensus.action = "hold" => consensus.strength = Half
        /\ \A s \in Strengths :
             (AllBuy(signals, s) /\ RGt(s, Threshold)) =>
                 consensus = Signal("buy", s, "buy reasons")
        /\ (\A k \in 1..Len(signals) :
                RLe(Zero, signals[k].strength) /\ RLe(signals[k].strength, R(1)))
             => RLe(Zero, consensus.strength) /\ RLe(consensus.strength, R(1))

\* five buys of strength 0.8 have given buy with strength 0.8
C13_Witness ==
    /\ tpc = "done"
    /\ Len(signals) = 5
    /\ AllBuy(signals, Rat(4, 5))
    /\ consensus.action = "buy"
    /\ consensus.strength = Rat(4, 5)

\* the signal of generator g of this call, and of the call before it
Has(g) == Len(signals) >= g

Had(g) == Len(earlier.signals) >= g

\* C14: on the successive prefixes of a history, the SMA-crossover and the
\* MACD generator return buy at a bar only if short > long at that bar and
\* short <= long at the bar before (sell: < and >=), short and long taken
\* from the whole history; so neither returns buy (or sell) on two
\* consecutive bars, and a second call on the same bars returns the same
\* signals.
C14_CrossFiresOnce ==
    /\ Has(1) =>
         LET short == calculate_sma(hist, short_period)
             long == calculate_sma(hist, long_period)
         IN  /\ signals[1].action = "buy" =>
                  /\ RGt(short[today], long[today])
                  /\ RLe(short[today - 1], long[today - 1])
             /\ signals[1].action = "sell" =>
                  /\ RLt(short[today], long[today])
                  /\ RGe(short[today - 1], long[today - 1])
    /\ Has(2) =>
         LET m == calculate_macd(hist)
         IN  /\ signals[2].action = "buy" =>
                  /\ m.macd[today] > m.signal[today]
                  /\ m.macd[today - 1] <= m.signal[today - 1]
             /\ signals[2].action = "sell" =>
                  /\ m.macd[today] < m.signal[today]
                  /\ m.macd[today - 1] >= m.signal[today - 1]
    /\ \A g \in {1, 2} :
         (earlier.bars = today - 1 /\ Has(g) /\ Had(g)) =>
             \A a \in {"buy", "sell"} :
                 ~(signals[g].action = a /\ earlier.signals[g].action = a)
    /\ earlier.bars = today =>
         \A g \in 1..Len(signals) : Had(g) /\ signals[g] = earlier.signals[g]

\* the call of the bar after an SMA cross: the buy of the day before is now
\* a hold
C14_Witness ==
    /\ earlier.bars = today - 1
    /\ Had(1) /\ earlier.signals[1].action = "buy"
    /\ Has(1) /\ signals[1].action = "hold"

\* C15: every signal a generator returns on two or more positive prices has
\* a strength in [0, 1].
C15_StrengthInRange ==
    \A g \in 1..Len(signals) :
        /\ RLe(Zero, signals[g].strength)
        /\ RLe(signals[g].strength, R(1))

\* the five generators have returned; the RSI or the Bollinger signal is a
\* buy of strength 1
C15_Witness ==
    /\ Len(signals) = 5
    /\ \E g \in {3, 4} :
         signals[g].action = "buy" /\ signals[g].strength = R(1)

HoldHalf(s) == s.action = "hold" /\ s.strength = Half

\* C16 (as claimed): on a history too short for its window, one bar
\* included, the SMA-crossover, the RSI and the Bollinger generator return
\* hold with strength 0.5 and do not raise.
C16_ShortSeriesHold ==
    /\ (tpc = "done" /\ analysis.unavailable) => Len(signals) \notin {0, 2, 3}
    /\ (Has(1) /\ today <= long_period) => HoldHalf(signals[1])
    /\ (Has(3) /\ today <= rsi_period) => HoldHalf(signals[3])
    /\ (Has(4) /\ today < bb_period) => HoldHalf(signals[4])

\* C17: the ranked picks are ordered by combined score non-increasing, are
\* min(10, |universe|) many, have pairwise distinct tickers of the universe,
\* and carry the ranks 1, 2, ... in list order.
C17_RankedPicks ==
    rpc = "done" =>
        LET n == Min(TopPicks, Len(universe))
        IN  /\ Len(ranked_picks) = n
            /\ \A k \in 1..n :
                  /\ ranked_picks[k].rank = k
                  /\ ranked_picks[k].ticker \in Tickers
            /\ \A j, k \in 1..n :
                  j < k =>
                    /\ RGe(ranked_picks[j].scores.combined_score,
                           ranked_picks[k].scores.combined_score)
                    /\ ranked_picks[j].ticker # ranked_picks[k].ticker

\* the optimizer has ranked a universe of more than ten assets whose kept
\* picks do not all score the same
C17_Witness ==
    /\ rpc = "done"
    /\ Len(universe) > TopPicks
    /\ Len(ranked_picks) = TopPicks
    /\ RGt(ranked_picks[1].scores.combined_score,
           ranked_picks[TopPicks].scores.combined_score)

\* the combined scores of the kept picks, in list order
KeptScores ==
    [k \in 1..Len(ranked_picks) |-> ranked_picks[k].scores.combined_score]

\* C18: for a non-empty universe the allocation_percent values of the kept
\* picks sum to 100, and each equals combined_score / (sum of the combined
\* scores of the kept picks) * 100, also when fewer than ten picks are kept.
C18_AllocationPercent ==
    (rpc = "done" /\ universe # << >>) =>
        /\ RSum([k \in 1..Len(ranked_picks) |->
                     ranked_picks[k].allocation_percent]) = R(100)
        /\ \A k \in 1..Len(ranked_picks) :
              /\ ranked_picks[k].allocation_percent =
                    RMul(RDiv(KeptScores[k], RSum(KeptScores)), R(100))
              /\ allocations[ranked_picks[k].ticker] =
                    ranked_picks[k].allocation_percent

\* the optimizer has allocated to fewer than ten picks, not all with the
\* same share
C18_Witness ==
    /\ rpc = "done"
    /\ Len(ranked_picks) \in 2..(TopPicks - 1)
    /\ ranked_picks[1].allocation_percent
         # ranked_picks[Len(ranked_picks)].allocation_percent

\* ticker is among the ranked picks
Kept(ticker) ==
    \E k \in 1..Len(ranked_picks) : ranked_picks[k].ticker = ticker

\* the rank the optimizer gave to a kept ticker
RankOf(ticker) ==
    LET k == CHOOSE j \in 1..Len(ranked_picks) :
                 ranked_picks[j].ticker = ticker
    IN  ranked_picks[k].rank

\* a comes before b in the universe and both have the same combined score
Tied(a, b) ==
    /\ Place(universe, a) < Place(universe, b)
    /\ Scores(a, State).combined_score = Scores(b, State).combined_score

\* C19: of two assets with equal combined scores the one earlier in the
\* universe gets the smaller rank, and if only one of them is kept (the tie
\* straddles position 10) it is the earlier one.
C19_StableTieBreak ==
    rpc = "done" =>
        \A a, b \in Tickers :
            Tied(a, b) =>
                /\ Kept(b) => Kept(a)
                /\ (Kept(a) /\ Kept(b)) => RankOf(a) < RankOf(b)

\* in a universe listed in descending ticker order, one tie lies within the
\* ranked picks and another straddles position 10: the earlier asset has
\* rank 10 and the later one is dropped
C19_Witness ==
    /\ rpc = "done"
    /\ Len(universe) > TopPicks
    /\ universe[1] > universe[2]
    /\ \E a, b \in Tickers : Tied(a, b) /\ Kept(b)
    /\ \E a, b \in Tickers :
          Tied(a, b) /\ Kept(a) /\ RankOf(a) = TopPicks /\ ~Kept(b)

\* the asset's volatility is above max_volatility or its Sharpe ratio below
\* min_sharpe of the preference
OutsideTolerance(ticker) ==
    LET tech == Entry(technical_analysis, ticker)
        limits == RiskThresholds(risk_preference)
    IN  \/ RGt(Get(tech, "volatility", DefaultVolatility),
               limits.max_volatility)
        \/ RLt(Get(tech, "sharpe_ratio", Zero), limits.min_sharpe)

\* C20: the risk input of the combined score is exactly 30 for an asset
\* outside the preference's tolerance and exactly 100 for one within it,
\* whatever its other three scores and its risk level; the combined score is
\* the weighted sum with that input.
C20_RiskInput ==
    rpc = "done" =>
        \A k \in 1..Len(ranked_picks) :
            LET p == ranked_picks[k]
                w == Weights(risk_preference)
            IN  /\ p.scores.risk_score =
                      IF OutsideTolerance(p.ticker) THEN 30 ELSE 100
                /\ p.scores.combined_score =
                      Rat(p.scores.fundamental_score * w.fundamental
                            + p.scores.technical_score * w.technical
                            + p.scores.sentiment_score * w.sentiment
                            + p.scores.risk_score * w.risk, 100)

\* two picks of the same risk level, one with risk input 30 and one with 100,
\* and two picks with different fundamental scores and the same risk input 30
C20_Witness ==
    /\ rpc = "done"
    /\ \E j, k \in 1..Len(ranked_picks) :
          /\ ranked_picks[j].risk_level = ranked_picks[k].risk_level
          /\ ranked_picks[j].scores.risk_score = 30
          /\ ranked_picks[k].scores.risk_score = 100
    /\ \E j, k \in 1..Len(ranked_picks) :
          /\ ranked_picks[j].scores.fundamental_score
               # ranked_picks[k].scores.fundamental_score
          /\ ranked_picks[j].scores.risk_score = 30
          /\ ranked_picks[k].scores.risk_score = 30

\* the mean loss of the RSI window ending at bar k is 0
NoLoss(prices, k) ==
    k >= rsi_period /\ SumRange(Loss(prices), k - rsi_period, k - 1) = 0

\* C27 (as claimed): wherever the RSI window is full and its mean loss is 0,
\* a flat window included, calculate_rsi yields 100.
C27_RsiWithoutLoss ==
    Has(3) =>
        \A k \in 1..Len(Prices) :
            NoLoss(Prices, k) => calculate_rsi(Prices)[k] = R(100)

\* C28 (as claimed): the long momentum of momentum_signal is the return from
\* the bar exactly lookback bars before the last one, which on fewer than 253
\* bars is the first bar of the series.
C28_MomentumOverLookback ==
    Has(5) =>
        LET n == Len(Prices)
            then == Prices[n - MomentumSpan(n)]
        IN  momentum_long(Prices) = Rat(Prices[n] - then, then)

\* C29: the momentum backtest over 253 bars or fewer never trades: every bar
\* is a warm-up bar, the trade log stays empty and the final value is the
\* initial capital.
C29_MomentumShortHistory ==
    (strategy = "momentum" /\ Len(close) <= MomentumLookback + 1) =>
        /\ trades = << >>
        /\ position = 0
        /\ cash = R(initial_capital)
        /\ pc = "done" =>
              /\ result.total_trades = 0
              /\ result.final_value = R(initial_capital)

\* a momentum run over 253 bars has ended without a trade although the
\* 252-bar return of its last bar is positive
C29_Witness ==
    /\ strategy = "momentum"
    /\ pc = "done"
    /\ Len(close) = MomentumLookback + 1
    /\ RGt(At(ind.momentum, MomentumLookback), Zero)
    /\ result.total_trades = 0

\* the node has run, or is the one that runs next
Reached(node) == node \in Elements(trace) \/ rpc = node

\* C21: the nodes of a research run execute once each in the fixed order,
\* and the portfolio optimizer starts only after the fundamental, technical,
\* sentiment and risk stages have run over every ticker of the universe.
C21_StagesInOrder ==
    /\ trace = SubSeq(Nodes, 1, Len(trace))
    /\ rpc = (IF Len(trace) = Len(Nodes) THEN "done"
              ELSE Nodes[Len(trace) + 1])
    /\ Reached("portfolio_optimizer") =>
          /\ {"fundamental_analyst", "technical_analyst",
               "sentiment_analyst", "risk_manager"} \subseteq Elements(trace)
          /\ \A t \in Tickers :
                /\ t \in DOMAIN fundamental_analysis
                /\ t \in DOMAIN technical_analysis
                     \/ TechnicalOf(t) = Unavailable
                /\ t \in DOMAIN sentiment_analysis
                /\ t \in DOMAIN risk_assessment

\* a run over several tickers has reached END with picks
C21_Witness ==
    /\ rpc = "done"
    /\ trace = Nodes
    /\ Len(universe) > TopPicks
    /\ Len(ranked_picks) = TopPicks

\* ticker is among the ranked picks or has an allocation
Picked(ticker) ==
    \/ \E k \in 1..Len(ranked_picks) : ranked_picks[k].ticker = ticker
    \/ ticker \in DOMAIN allocations

\* C23 (as claimed): a ticker whose current-price fetch or whose historical
\* fetch returned unavailable is removed from the universe of the run and
\* never appears in ranked_picks or allocations.
C23_FailedFetchDropsTicker ==
    Reached("sentiment_analyst") =>
        \A t \in Tradable :
            (PriceOf(t) = Unavailable \/ TechnicalOf(t) = Unavailable) =>
                t \notin Tickers /\ ~Picked(t)

\* C25: once filter_universe has run the universe holds at most 50 tickers,
\* and every later node only removes tickers from it.
C25_UniverseBounded ==
    /\ [](Reached("gather_data") => Len(universe) <= UniverseLimit)
    /\ [][Reached("gather_data") =>
             /\ Elements(universe') \subseteq Elements(universe)
             /\ Len(universe') <= Len(universe)]_vars

\* more than 50 tickers were tradable, 50 were fetched and some of them
\* were dropped for a failed fetch
C25_Witness ==
    /\ rpc = "fundamental_analyst"
    /\ Cardinality(Elements(get_robinhood_universe(asset_classes, TRUE)))
         > UniverseLimit
    /\ Cardinality(DOMAIN price_data) = UniverseLimit
    /\ Len(universe) \in 1..(UniverseLimit - 1)

\* no ticker is left after gather_data: none was tradable and requested, or
\* every price fetch failed
NothingFetched ==
    /\ Reached("fundamental_analyst")
    /\ \A t \in DOMAIN price_data : price_data[t] = Unavailable

\* C26: a run whose universe is empty goes through every node and ends with
\* an empty ranked_picks list and an empty allocations map.
C26_EmptyUniverse ==
    NothingFetched =>
        /\ universe = << >>
        /\ fundamental_analysis = << >> /\ technical_analysis = << >>
        /\ sentiment_analysis = << >> /\ risk_assessment = << >>
        /\ ranked_picks = << >>
        /\ allocations = << >>
        /\ rpc = "done" => trace = Nodes /\ full_report.picks = << >>

\* a run in which every price fetch failed has reached END; another way to
\* the same end is a request without a tradable ticker
C26_Witness ==
    /\ rpc = "done"
    /\ trace = Nodes
    /\ DOMAIN price_data # {}
    /\ NothingFetched
    /\ ranked_picks = << >>

\* C22: whatever subset of the fetches of a batch fails or raises, and in
\* whatever order they end, the batch can still be gathered and returns one
\* entry per requested ticker, the data of a successful fetch and None for a
\* failed one; a result once returned is not altered by the other fetches.
C22_BatchSurvivesFailures ==
    /\ []((fpc = "gather" /\ \A k \in 1..Len(batch) : HasReturned(fetch[k]))
             => ENABLED Gather)
    /\ [](fpc = "done" =>
             /\ DOMAIN prices_out = Elements(batch)
             /\ \A t \in Elements(batch) :
                   LET last == fetch[LastOf(batch, t)]
                   IN  prices_out[t] = IF last.outcome = "data"
                                       THEN PriceData(t) ELSE Unavailable)
    /\ [][\A k \in 1..Len(batch) :
              HasReturned(fetch[k]) => fetch'[k] = fetch[k]]_vars

\* a batch has been gathered in which one fetch raised, one returned None
\* and one returned its data
C22_Witness ==
    /\ fpc = "done"
    /\ \E j, k, m \in 1..Len(batch) :
          /\ fetch[j].outcome = "raised"
          /\ fetch[k].outcome = "none"
          /\ fetch[m].outcome = "data"
          /\ batch[j] # batch[m]
          /\ prices_out[batch[j]] = Unavailable
          /\ prices_out[batch[m]] = PriceData(batch[m])

\* C24 (as claimed): every fetch is bounded by a timeout, so the batch fetch
\* eventually completes even if the provider call of a ticker never returns.
C24_BatchCompletes == <>(fpc = "done")

\* the status changes a report may make
StatusSteps ==
    {<< "pending", "processing" >>, << "processing", "completed" >>,
     << "processing", "failed" >>}

====
